---- MODULE Spec2Model ----
(***************************************************************************)
(* A model of the GitHub-Releases upgrade provider                         *)
(* (GithubReleasesProvider, latest variant: src/README.md lines 730-1433;  *)
(* the first variant is src/mod.ts).                                       *)
(*                                                                         *)
(* Part 1: the version selector (semver parsing, the comparator, the sort  *)
(*         of Array.prototype.sort, getVersions).                          *)
(* Part 2: the engine (constructor, reaper, upgrade) on a file system.     *)
(***************************************************************************)
EXTENDS Integers, Sequences, FiniteSets, TLC

\* ------------------------------------------------------------------ bounds

\* Longest remote release list drawn as an input of getVersions.
MaxReleases == 3

\* ------------------------------------------------------------ text values

\* A JavaScript string is modelled as a sequence of one-character strings.
DigitChars == {"0", "1", "2", "3", "4", "5", "6", "7", "8", "9"}

DigitVal(c) ==
  CASE c = "0" -> 0 [] c = "1" -> 1 [] c = "2" -> 2 [] c = "3" -> 3
    [] c = "4" -> 4 [] c = "5" -> 5 [] c = "6" -> 6 [] c = "7" -> 7
    [] c = "8" -> 8 [] c = "9" -> 9

\* The value of a non-empty digit sequence, most significant digit first.
RECURSIVE DigitsValue(_)
DigitsValue(s) ==
  IF Len(s) = 0 THEN 0
  ELSE 10 * DigitsValue(SubSeq(s, 1, Len(s) - 1)) + DigitVal(s[Len(s)])

\* The tags of the model's remote releases.
Tag_1_0_0  == <<"1", ".", "0", ".", "0">>
Tag_1_2_0  == <<"1", ".", "2", ".", "0">>
Tag_1_9_9  == <<"1", ".", "9", ".", "9">>
Tag_2_0_0  == <<"2", ".", "0", ".", "0">>
Tag_weird  == <<"w", "e", "i", "r", "d">>

TagUniverse == {Tag_1_0_0, Tag_1_2_0, Tag_1_9_9, Tag_2_0_0, Tag_weird}

\* versions[0] of an empty array.
UNDEFINED == <<"undefined">>

\* ------------------------------------------------------------------ semver

\* The index of the first "." of s at or after position i, Len(s)+1 if none.
RECURSIVE NextDot(_, _)
NextDot(s, i) ==
  IF i > Len(s) THEN Len(s) + 1
  ELSE IF s[i] = "." THEN i ELSE NextDot(s, i + 1)

\* A numeric identifier of a semantic version: 0, or digits with no leading 0.
IsNumericId(s) ==
  /\ Len(s) >= 1
  /\ \A i \in 1..Len(s) : s[i] \in DigitChars
  /\ (Len(s) > 1 => s[1] # "0")

\* semver.tryParse: an optional leading "v", then MAJOR.MINOR.PATCH; anything
\* else is no version (the model's tags carry no prerelease or build part).
\* A failed parse (undefined) is the record with ok = FALSE.
tryParse(tag) ==
  LET s  == IF Len(tag) >= 1 /\ tag[1] = "v" THEN Tail(tag) ELSE tag
      d1 == NextDot(s, 1)
      d2 == NextDot(s, d1 + 1)
      d3 == NextDot(s, d2 + 1)
      ma == SubSeq(s, 1, d1 - 1)
      mi == SubSeq(s, d1 + 1, d2 - 1)
      pa == SubSeq(s, d2 + 1, Len(s))
  IN IF /\ d1 <= Len(s)
        /\ d2 <= Len(s)
        /\ d3 = Len(s) + 1
        /\ IsNumericId(ma) /\ IsNumericId(mi) /\ IsNumericId(pa)
     THEN [ok |-> TRUE, major |-> DigitsValue(ma), minor |-> DigitsValue(mi),
           patch |-> DigitsValue(pa)]
     ELSE [ok |-> FALSE]

compareNumber(a, b) == IF a < b THEN -1 ELSE IF a > b THEN 1 ELSE 0

\* semver.compare(s0, s1): -1, 0 or 1 by major, then minor, then patch.
compare(s0, s1) ==
  IF compareNumber(s0.major, s1.major) # 0
  THEN compareNumber(s0.major, s1.major)
  ELSE IF compareNumber(s0.minor, s1.minor) # 0
       THEN compareNumber(s0.minor, s1.minor)
       ELSE compareNumber(s0.patch, s1.patch)

\* A comparator that sorts ascending: the sign slip of latestSemVerFirst.
latestSemVerFirst_ascending(a, b) ==
  LET aParsed == tryParse(a)
      bParsed == tryParse(b)
  IN IF aParsed.ok /\ bParsed.ok
     THEN compare(aParsed, bParsed)
     ELSE 0

\* latestSemVerFirst(a, b): descending semver order; 0 when either tag does
\* not parse.
latestSemVerFirst(a, b) ==
  LET aParsed == tryParse(a)
      bParsed == tryParse(b)
  IN IF aParsed.ok /\ bParsed.ok
     THEN compare(bParsed, aParsed)
     ELSE 0

\* --------------------------------------------------- Array.prototype.sort
\* The runtime's sort (TimSort) on an array shorter than its minimal run
\* length: the initial run is counted (and reversed when strictly
\* descending), then the remaining elements are inserted by binary insertion.
\* The comparator is called exactly as the runtime calls it, so that an
\* inconsistent comparator yields what the runtime yields.

\* The length of the run that starts at arr[1]; i is the next index to test.
RECURSIVE RunEnd(_, _, _)
RunEnd(arr, i, isDescending) ==
  IF i > Len(arr) THEN Len(arr)
  ELSE LET order == latestSemVerFirst(arr[i], arr[i - 1])
       IN IF (isDescending /\ order >= 0) \/ (~isDescending /\ order < 0)
          THEN i - 1
          ELSE RunEnd(arr, i + 1, isDescending)

Reverse(s) == [i \in 1..Len(s) |-> s[Len(s) + 1 - i]]

\* The array after CountAndMakeRun, and the length of the run.
MakeRun(arr) ==
  LET isDescending == latestSemVerFirst(arr[2], arr[1]) < 0
      run          == RunEnd(arr, 3, isDescending)
  IN [arr |-> IF isDescending
              THEN Reverse(SubSeq(arr, 1, run)) \o SubSeq(arr, run + 1, Len(arr))
              ELSE arr,
      run |-> run]

\* The insertion point of pivot in arr[left .. right-1].
RECURSIVE BinarySearch(_, _, _, _)
BinarySearch(arr, pivot, left, right) ==
  IF left >= right THEN left
  ELSE LET mid   == left + ((right - left) \div 2)
           order == latestSemVerFirst(pivot, arr[mid])
       IN IF order < 0
          THEN BinarySearch(arr, pivot, left, mid)
          ELSE BinarySearch(arr, pivot, mid + 1, right)

\* Insert arr[start], arr[start+1], ... into the sorted prefix before them.
RECURSIVE BinaryInsertionSort(_, _)
BinaryInsertionSort(arr, start) ==
  IF start > Len(arr) THEN arr
  ELSE LET pivot == arr[start]
           left  == BinarySearch(arr, pivot, 1, start)
           moved == SubSeq(arr, 1, left - 1) \o <<pivot>>
                      \o SubSeq(arr, left, start - 1)
                      \o SubSeq(arr, start + 1, Len(arr))
       IN BinaryInsertionSort(moved, start + 1)

\* versions.sort(latestSemVerFirst)
Sort(arr) ==
  IF Len(arr) < 2 THEN arr
  ELSE LET r == MakeRun(arr)
       IN BinaryInsertionSort(r.arr, r.run + 1)

\* ------------------------------------------------------------- getVersions

\* A release of the remote list: its tag and its two flags.
Releases == [tag_name : TagUniverse, draft : BOOLEAN, prerelease : BOOLEAN]

\* A filter that forgets the draft test.
keepRelease_drafts(release, prerelease) ==
  IF release.prerelease THEN prerelease ELSE TRUE

\* The filter callback of getVersions.
keepRelease(release, prerelease) ==
  IF release.draft THEN FALSE
  ELSE IF release.prerelease THEN prerelease
       ELSE TRUE

RECURSIVE FilterReleases(_, _)
FilterReleases(data, prerelease) ==
  IF Len(data) = 0 THEN <<>>
  ELSE (IF keepRelease(Head(data), prerelease) THEN <<Head(data)>> ELSE <<>>)
         \o FilterReleases(Tail(data), prerelease)

TagNames(data) == [i \in 1..Len(data) |-> data[i].tag_name]

\* The value getVersions returns for a release list that was fetched.
getVersions(data, prerelease) ==
  LET versions == Sort(TagNames(FilterReleases(data, prerelease)))
  IN [versions |-> versions,
      latest   |-> IF Len(versions) = 0 THEN UNDEFINED ELSE versions[1]]

\* ------------------------------------------------------------ error codes

DigitChar(d) ==
  CASE d = 0 -> "0" [] d = 1 -> "1" [] d = 2 -> "2" [] d = 3 -> "3"
    [] d = 4 -> "4" [] d = 5 -> "5" [] d = 6 -> "6" [] d = 7 -> "7"
    [] d = 8 -> "8" [] d = 9 -> "9"

\* `${n}` for a number n >= 0.
RECURSIVE NumStr(_)
NumStr(n) ==
  IF n < 10 THEN <<DigitChar(n)>>
  ELSE NumStr(n \div 10) \o <<DigitChar(n % 10)>>

\* The number of leading digit characters of s.
RECURSIVE LeadingDigits(_)
LeadingDigits(s) ==
  IF Len(s) = 0 \/ s[1] \notin DigitChars THEN 0
  ELSE 1 + LeadingDigits(Tail(s))

\* Not a number: what parseInt gives for a text with no leading digit.
NaN == 0 - 1

\* parseInt(s): the value of the leading digits of s.
parseInt(s) ==
  IF LeadingDigits(s) = 0 THEN NaN
  ELSE DigitsValue(SubSeq(s, 1, LeadingDigits(s)))

\* The status of a response or of a request error, as `${status}` prints it;
\* a request error that carries no status prints "undefined".
Status200 == <<"2", "0", "0">>
Status404 == <<"4", "0", "4">>
Status500 == <<"5", "0", "0">>
StatusUndefined == <<"undefined">>

\* The statuses a failed request carries.
ErrorStatuses == {Status404, Status500, StatusUndefined}

\* `${status || ""}`
StatusOrEmpty(status) == IF status = StatusUndefined THEN <<>> ELSE status

\* A GHRError constructor that ignores the prefix.
GHRErrorCode_noPrefix(prefix, code) == code

\* new GHRError(message, {code}).code = parseInt(`${errorCodePrefix}${code}`)
GHRErrorCode(prefix, code) == parseInt(prefix \o NumStr(code))

\* ------------------------------------------------------------ file system

OLD_VERSION_TAG == ".GHR_OLD."

\* this.destinationDir and the directory Deno.makeTempDirSync() returns.
DestinationDir == "~/.tool/bin"
StagingDir == "/tmp/staging"

\* The regular files a release archive of the model may hold (no name of
\* them carries the stash marker).
StagedNames == {"tool", "tool-helper"}

\* A path is the sequence of its parts: the directory, the separator, the
\* file name, and one part for each appended stash marker.
StagedPaths == {<<StagingDir, "/", n>> : n \in StagedNames}

\* The install loop stashes to a path that is the final path.
StashPath_same(finalPath) == finalPath

\* `${finalPath}${OLD_VERSION_TAG}`
StashPath(finalPath) == finalPath \o <<OLD_VERSION_TAG>>

\* path.includes(OLD_VERSION_TAG)
IncludesOldTag(path) == \E i \in 1..Len(path) : path[i] = OLD_VERSION_TAG

\* The index of the first part of path equal to part, 0 if there is none.
RECURSIVE IndexOf(_, _, _)
IndexOf(path, part, i) ==
  IF i > Len(path) THEN 0
  ELSE IF path[i] = part THEN i ELSE IndexOf(path, part, i + 1)

\* entry.path.replace(stagingDir, this.destinationDir)
FinalPath(entryPath) ==
  LET i == IndexOf(entryPath, StagingDir, 1)
  IN IF i = 0 THEN entryPath ELSE [entryPath EXCEPT ![i] = DestinationDir]

\* The paths of the destination directory the model follows.
InstallPaths == {FinalPath(p) : p \in StagedPaths}
DestPaths == InstallPaths \cup {StashPath(p) : p \in InstallPaths}

\* A file: where its bytes come from ("orig": installed before the run,
\* "stale": a stash left by an earlier run, "release": staged by upgrade
\* number n) and its permission mode.  NoFile: no entry at the path.
NoFile == [src |-> "none", n |-> 0, mode |-> "none"]
OrigFile == [src |-> "orig", n |-> 0, mode |-> "0755"]
StaleFile == [src |-> "stale", n |-> 0, mode |-> "0755"]
ReleaseFile(n) == [src |-> "release", n |-> n, mode |-> "0644"]

Exists(fs, path) == fs[path] # NoFile

\* The bytes of a file, whatever its mode.
Bytes(entry) == [src |-> entry.src, n |-> entry.n]

\* Deno.renameSync(from, to) within one directory tree, when it succeeds: the
\* entry moves, replacing what the target held.
RenameSync(fs, from, to) == [fs EXCEPT ![to] = fs[from], ![from] = NoFile]

\* Deno.renameSync(entry.path, finalPath), when it succeeds: the staged entry
\* becomes the destination entry.
RenameInto(fs, to, entry) == [fs EXCEPT ![to] = entry]

\* Deno.removeSync(path), when it succeeds.
RemoveSync(fs, path) == [fs EXCEPT ![path] = NoFile]

\* Deno.chmodSync(path, 0o755), when it succeeds.
ChmodSync(fs, path) == [fs EXCEPT ![path].mode = "0755"]

\* The index of the last separator of path at or before part i, 0 if there
\* is none.
RECURSIVE LastSeparator(_, _)
LastSeparator(path, i) ==
  IF i = 0 THEN 0
  ELSE IF path[i] = "/" THEN i ELSE LastSeparator(path, i - 1)

\* The directory a path lies in.
Dirname(path) == SubSeq(path, 1, LastSeparator(path, Len(path)) - 1)

\* The directories a rename into the destination can find: the destination
\* directory, which the constructor ensured, and the subdirectories ds that
\* are in it.  The install loop creates none.
DirExists(ds, dir) == dir = <<DestinationDir>> \/ dir \in ds

\* ------------------------------------------------------------ the platform

\* Deno.build of the running binary.
Builds == {[os |-> "linux", arch |-> "x86_64"],
           [os |-> "linux", arch |-> "aarch64"],
           [os |-> "windows", arch |-> "x86_64"]}

\* `${os}-${arch}`
TargetKey(b) == <<b.os, "-", b.arch>>

\* options.targetAssetMap of the model, a function from its keys to asset
\* names: it has no entry for linux-aarch64.
TargetAssetMap ==
  [k \in {<<"linux", "-", "x86_64">>, <<"windows", "-", "x86_64">>} |->
     IF k[1] = "linux" THEN "tool-linux.tar.gz" ELSE "tool-win.tar.gz"]

NoAssetName == "null"

\* A resolver that takes any entry of the running operating system.
getAssetName_anyArch(b, targetAssetMap) ==
  IF \E k \in DOMAIN targetAssetMap : k[1] = b.os
  THEN targetAssetMap[CHOOSE k \in DOMAIN targetAssetMap : k[1] = b.os]
  ELSE NoAssetName

\* getAssetName(): the map's entry for the key of the running platform;
\* `!assetName` holds for a missing entry and for an empty name.
getAssetName(b, targetAssetMap) ==
  LET key == TargetKey(b)
  IN IF key \notin DOMAIN targetAssetMap THEN NoAssetName
     ELSE IF targetAssetMap[key] = "" THEN NoAssetName
     ELSE targetAssetMap[key]

\* ----------------------------------------------------------------- state

\* upgrade() calls made in one behaviour (each on a newly constructed engine).
MaxUpgrades == 2

VARIABLES
  vData,        \* the release list the remote side returns (version selector)
  vPrerelease,  \* provider.prerelease (version selector)
  vResult,      \* what the last getVersions call returned, or NoResult
  pc,           \* where the engine is
  build,        \* Deno.build
  opts,         \* the provider's fields set from the constructor's options
  errorCodePrefix, \* GHRError.prototype.errorCodePrefix
  dest,         \* the files of the destination directory, by path
  staging,      \* the files of the staging directory, by path
  walk,         \* the entries the running loop has still to visit
  cur,          \* the staged entry the install loop is at
  to,           \* upgrade()'s local `to`
  phase,        \* the orchestrator state of the running upgrade
  net,          \* the network requests issued since the call (or construction)
  hooks,        \* the codes of the errors handed to onError since then
  thrown,       \* the error upgrade() rejected with
  exited,       \* <<code>> once Deno.exit(code) was called
  completed,    \* the metadata handed to onComplete
  reaped,       \* the <<path, file>> pairs the constructor's reaper pass removed
  assetStatus,  \* the status of the asset response, <<>> before there is one
  dest0,        \* dest when upgrade() was called
  staged0,      \* the staged paths the extraction produced
  nUp,          \* upgrade() calls made
  options,      \* the argument of the upgrade() call: {to, from}
  versions,     \* what getVersions returned to upgrade()
  tags,         \* the tags of the release and download requests issued
  release,      \* the assets of the fetched release
  printed,      \* printSuccessMessage was called
  reapedBefore, \* the reaper pass the process before completed, no upgrade
                \* since: the paths it removed
  prefixes,     \* options.errorExitCodePrefix of the engines constructed in
                \* the process, in the order of construction
  repository,   \* options.repository of the constructor call
  ensured,      \* ensureDirSync(this.destinationDir) was called
  assetId,      \* the asset_id of the asset request issued, <<>> if none
  auth,         \* the auth option the Octokit client was constructed with
  url,          \* the url of the anonymous fetch issued, <<>> if none
  dirs,         \* the subdirectories the destination directory holds
  interfered    \* another engine changed the destination directory while
                \* this engine's upgrade was in its install loop

vvars == <<vData, vPrerelease, vResult>>
hvars == <<options, versions, tags, release, printed, reapedBefore>>
gvars == <<prefixes, repository, ensured, assetId>>
fvars == <<auth, url, dirs, interfered>>
evars == <<pc, build, opts, errorCodePrefix, dest, staging, walk, cur, to,
           phase, net, hooks, thrown, exited, completed, reaped, assetStatus,
           dest0, staged0, nUp, hvars, gvars, fvars>>
vars == <<vvars, evars>>

NoResult == [called |-> FALSE]
NoEngine == [constructed |-> FALSE]
NoThrow == [kind |-> "none", code |-> 0]
NoPath == <<>>
NoTag == <<>>
LATEST == <<"l", "a", "t", "e", "s", "t">>
NoOptions == [called |-> FALSE]
NoRelease == [fetched |-> FALSE]
NoPass == [done |-> FALSE, removed |-> {}]
NoRepository == [given |-> FALSE]
NoAuth == "none"

EmptyDir(paths) == [p \in paths |-> NoFile]

\* The engine's variables but opts before any construction, on destination
\* directory d.
EngineAtBoot(d, b) ==
  /\ pc = "boot"
  /\ build = b
  /\ errorCodePrefix = <<>>
  /\ dest = d
  /\ staging = EmptyDir(StagedPaths)
  /\ walk = {}
  /\ cur = NoPath
  /\ to = NoTag
  /\ phase = "Idle"
  /\ net = <<>>
  /\ hooks = <<>>
  /\ thrown = NoThrow
  /\ exited = <<>>
  /\ completed = <<>>
  /\ reaped = {}
  /\ assetStatus = <<>>
  /\ dest0 = d
  /\ staged0 = {}
  /\ nUp = 0
  /\ options = NoOptions
  /\ versions = NoResult
  /\ tags = <<>>
  /\ release = NoRelease
  /\ printed = FALSE
  /\ reapedBefore = NoPass
  /\ prefixes = <<>>
  /\ repository = NoRepository
  /\ ensured = FALSE
  /\ assetId = <<>>
  /\ auth = NoAuth
  /\ url = <<>>
  /\ dirs = {}
  /\ interfered = FALSE

\* ------------------------------------------------- version selector alone

\* Release lists of at most n releases with pairwise distinct tags (the
\* remote side identifies a release by its tag).
RECURSIVE ReleaseLists(_)
ReleaseLists(n) ==
  IF n = 0 THEN {<<>>}
  ELSE LET shorter == ReleaseLists(n - 1)
       IN shorter \cup
          {Append(l, r) : l \in {x \in shorter : Len(x) = n - 1},
                          r \in Releases}

DistinctTags(l) == \A i, j \in 1..Len(l) : i # j => l[i].tag_name # l[j].tag_name

InitVersions ==
  /\ vData \in {l \in ReleaseLists(MaxReleases) : DistinctTags(l)}
  /\ vPrerelease \in BOOLEAN
  /\ vResult = NoResult
  /\ EngineAtBoot(EmptyDir(DestPaths), [os |-> "linux", arch |-> "x86_64"])
  /\ opts = NoEngine

\* The --prerelease option of GithubReleasesUpgradeCommand.
PrereleaseOption ==
  /\ vPrerelease' = TRUE
  /\ UNCHANGED <<vData, vResult, evars>>

\* A call of getVersions whose list request succeeds.
GetVersionsCall ==
  /\ vResult' = [called     |-> TRUE,
                 prerelease |-> vPrerelease,
                 versions   |-> getVersions(vData, vPrerelease).versions,
                 latest     |-> getVersions(vData, vPrerelease).latest]
  /\ UNCHANGED <<vData, vPrerelease, evars>>

NextVersions == PrereleaseOption \/ GetVersionsCall

SpecVersions == InitVersions /\ [][NextVersions]_vars

\* --------------------------------------------------- asset resolver alone

\* The platforms and the asset maps the resolver is tried on: every map from
\* some of the keys to a name, the empty name included.
AssetBuilds == Builds \cup {[os |-> "darwin", arch |-> "aarch64"]}
AssetKeys == {TargetKey(b) : b \in Builds}
AssetNames == {"", "tool-linux.tar.gz", "tool-win.tar.gz"}
AssetMaps == UNION {[keys -> AssetNames] : keys \in SUBSET AssetKeys}

\* An engine with asset map m, on platform b.
InitAssets ==
  /\ vData = <<>>
  /\ vPrerelease = FALSE
  /\ vResult = NoResult
  /\ \E b \in AssetBuilds, m \in AssetMaps :
       /\ EngineAtBoot(EmptyDir(DestPaths), b)
       /\ opts = [constructed |-> TRUE, cleanupOld |-> FALSE,
                  skipAuth |-> FALSE, prerelease |-> FALSE,
                  targetAssetMap |-> m, errorExitCodePrefix |-> <<>>,
                  hook |-> "default", onComplete |-> "default"]

\* provider.getAssetName()
GetAssetNameCall ==
  /\ vResult' = [called |-> TRUE,
                 assetName |-> getAssetName(build, opts.targetAssetMap)]
  /\ UNCHANGED <<vData, vPrerelease, evars>>

NextAssets == GetAssetNameCall

SpecAssets == InitAssets /\ [][NextAssets]_vars

\* ------------------------------------------------------------- the engine

\* The destination directory before the first engine is constructed: each
\* installed file is there or not, and so is a stash an earlier run left
\* (the helper only beside the tool, its stash only beside the tool's).
InitialDests ==
  {d \in [DestPaths -> {NoFile, OrigFile, StaleFile}] :
     /\ \A p \in DestPaths :
          /\ d[p] = OrigFile => ~IncludesOldTag(p)
          /\ d[p] = StaleFile => IncludesOldTag(p)
     /\ LET tool   == <<DestinationDir, "/", "tool">>
            helper == <<DestinationDir, "/", "tool-helper">>
        IN /\ Exists(d, helper) => Exists(d, tool)
           /\ Exists(d, StashPath(helper)) =>
                (Exists(d, helper) /\ Exists(d, StashPath(tool)))}

\* The constructor's options of the model.  hook: "default" is the hook the
\* constructor installs when options.onError is absent (Deno.exit(e.code));
\* "returns" is a configured hook that returns to the engine.  onComplete:
\* "default" is the hook installed when options.onComplete is absent (it does
\* nothing); "callsBack" is a configured hook that calls the callback (the
\* model configures it together with an error hook).
Options ==
  {o \in
  [constructed : {TRUE},
   cleanupOld : BOOLEAN,
   skipAuth : BOOLEAN,
   prerelease : {FALSE},
   targetAssetMap : {TargetAssetMap},
   errorExitCodePrefix : {<<"8">>},
   hook : {"default", "returns"},
   onComplete : {"default", "callsBack"}] :
     o.hook = "default" => o.onComplete = "default"}

\* What the remote side may answer to the release-list request.
RemoteLists ==
  {<<>>,
   <<[tag_name |-> Tag_1_0_0, draft |-> FALSE, prerelease |-> FALSE],
     [tag_name |-> Tag_2_0_0, draft |-> FALSE, prerelease |-> FALSE]>>}

\* The targets an upgrade is asked for.
Targets == {LATEST, Tag_1_9_9}

\* The arguments of upgrade(): `to`, and `from` (the installed version, or
\* undefined).
UpgradeOptions ==
  {[called |-> TRUE, to |-> LATEST, from |-> Tag_1_0_0],
   [called |-> TRUE, to |-> Tag_1_9_9, from |-> UNDEFINED]}

\* The asset lists a fetched release may carry.
AssetLists ==
  {<<>>,
   <<[name |-> "tool-linux.tar.gz", id |-> 11],
     [name |-> "tool-win.tar.gz", id |-> 12]>>}

Init ==
  /\ vData = <<>>
  /\ vPrerelease = FALSE
  /\ vResult = NoResult
  /\ \E d \in InitialDests, b \in Builds : EngineAtBoot(d, b)
  /\ opts = NoEngine

\* The error is built with base code codes[1] and handed to onError; a hook
\* that returns lets the engine go on: each further code of codes is the
\* error a catch block then builds and hands to onError, and the last error
\* is thrown.  The default hook ends the process at the first error.
Signal(codes) ==
  IF opts.hook = "returns"
  THEN /\ hooks' = hooks \o [i \in 1..Len(codes) |->
                               GHRErrorCode(errorCodePrefix, codes[i])]
       /\ thrown' = [kind |-> "GHRError",
                     code |-> GHRErrorCode(errorCodePrefix, codes[Len(codes)])]
       /\ exited' = exited
       /\ pc' = "rejected"
  ELSE /\ hooks' = Append(hooks, GHRErrorCode(errorCodePrefix, codes[1]))
       /\ thrown' = thrown
       /\ exited' = <<GHRErrorCode(errorCodePrefix, codes[1])>>
       /\ pc' = "exited"

Terminal == {"resolved", "rejected", "exited", "crashed"}

\* The process ended (upgrade() settled, or Deno.exit, or an unhandled
\* rejection, or the run made no upgrade); the next run of the tool starts a
\* new one.
ProcessEnd ==
  /\ pc \in Terminal \cup {"ready"}
  /\ pc' = "boot"
  /\ opts' = NoEngine
  /\ errorCodePrefix' = <<>>
  /\ staging' = EmptyDir(StagedPaths)
  /\ walk' = {}
  /\ cur' = NoPath
  /\ to' = NoTag
  /\ phase' = "Idle"
  /\ net' = <<>>
  /\ hooks' = <<>>
  /\ thrown' = NoThrow
  /\ exited' = <<>>
  /\ completed' = <<>>
  /\ reaped' = {}
  /\ assetStatus' = <<>>
  /\ dest0' = dest
  /\ staged0' = {}
  /\ options' = NoOptions
  /\ versions' = NoResult
  /\ tags' = <<>>
  /\ release' = NoRelease
  /\ printed' = FALSE
  /\ reapedBefore' =
       IF pc # "ready" THEN NoPass
       ELSE IF opts.cleanupOld
       THEN [done |-> TRUE,
             removed |-> {r[1] : r \in {q \in reaped : q[2] # NoFile}}]
       ELSE reapedBefore
  /\ repository' = NoRepository
  /\ ensured' = FALSE
  /\ assetId' = <<>>
  /\ auth' = NoAuth
  /\ url' = <<>>
  /\ interfered' = FALSE
  /\ UNCHANGED <<vvars, dirs, prefixes, build, dest, nUp>>

\* The environment of the process: GITHUB_TOKEN is not set, GH_TOKEN is.
Env == [GITHUB_TOKEN |-> UNDEFINED, GH_TOKEN |-> <<"token">>]

\* skipAuth ? undefined : Deno.env.get("GITHUB_TOKEN") ?? Deno.env.get("GH_TOKEN")
Auth(skipAuth) ==
  IF skipAuth THEN UNDEFINED
  ELSE IF Env.GITHUB_TOKEN # UNDEFINED THEN Env.GITHUB_TOKEN
  ELSE Env.GH_TOKEN

\* options.repository of the model: "acme/tool", "acme", "/tool", "acme/"
\* and "", each the sequence of its parts and separators.
Repositories ==
  {<<"acme", "/", "tool">>, <<"acme">>, <<"/", "tool">>, <<"acme", "/">>,
   <<>>}

\* string.split(separator): the sequence of the pieces between separators.
RECURSIVE Split(_, _)
Split(string, separator) ==
  LET i == IndexOf(string, separator, 1)
  IN IF i = 0 THEN <<string>>
     ELSE <<SubSeq(string, 1, i - 1)>>
            \o Split(SubSeq(string, i + 1, Len(string)), separator)

\* const [owner, repo] = options.repository.split("/"); !owner || !repo
MalformedRepository(r) ==
  LET parts == Split(r, "/")
      owner == parts[1]
      repo  == IF Len(parts) >= 2 THEN parts[2] ELSE UNDEFINED
  IN owner = <<>> \/ repo = UNDEFINED \/ repo = <<>>

\* this.owner and this.repo of an engine constructed on repository r.
Owner(r) == Split(r, "/")[1]
Repo(r) == Split(r, "/")[2]

\* `https://github.com/${owner}/${repo}/releases/download/${to}/${assetName}`
DownloadUrl(owner, repo, tag, assetName) ==
  <<"https://github.com/">> \o owner \o <<"/">> \o repo
    \o <<"/releases/download/">> \o tag \o <<"/", assetName>>

\* A constructor that goes on to ensureDirSync after error 1 when the hook
\* returns.
ConstructBadRepository_ensures ==
  /\ pc = "boot"
  /\ \E o \in Options, r \in Repositories :
       /\ MalformedRepository(r)
       /\ repository' = [given |-> TRUE, value |-> r]
       /\ errorCodePrefix' = o.errorExitCodePrefix
       /\ hooks' = <<GHRErrorCode(o.errorExitCodePrefix, 1)>>
       /\ exited' = <<GHRErrorCode(o.errorExitCodePrefix, 1)>>
       /\ ensured' = (o.hook = "returns")
  /\ pc' = "exited"
  /\ UNCHANGED <<vvars, fvars, hvars, prefixes, assetId, build, opts, dest,
                 staging, walk, cur, to, phase, net, thrown, completed, reaped,
                 assetStatus, dest0, staged0, nUp>>

\* new GithubReleasesProvider(options) with a repository that has no owner
\* or no repo: error 1 goes to onError (the default hook exits there), then
\* the constructor calls Deno.exit(error.code); it has not reached
\* ensureDirSync, and no engine exists.
ConstructBadRepository ==
  /\ pc = "boot"
  /\ \E o \in Options, r \in Repositories :
       /\ MalformedRepository(r)
       /\ repository' = [given |-> TRUE, value |-> r]
       /\ errorCodePrefix' = o.errorExitCodePrefix
       /\ hooks' = <<GHRErrorCode(o.errorExitCodePrefix, 1)>>
       /\ exited' = <<GHRErrorCode(o.errorExitCodePrefix, 1)>>
  /\ pc' = "exited"
  /\ UNCHANGED <<vvars, fvars, hvars, prefixes, assetId, ensured, build, opts,
                 dest, staging, walk, cur, to, phase, net, thrown, completed,
                 reaped, assetStatus, dest0, staged0, nUp>>

\* A constructor that does not call cleanOldVersions.
Construct_noReap ==
  /\ pc = "boot"
  /\ \E o \in Options :
       /\ opts' = o
       /\ errorCodePrefix' = o.errorExitCodePrefix
       /\ auth' = Auth(o.skipAuth)
  /\ walk' = {}
  /\ pc' = "ready"
  /\ \E r \in Repositories :
       /\ ~MalformedRepository(r)
       /\ repository' = [given |-> TRUE, value |-> r]
  /\ ensured' = TRUE
  /\ UNCHANGED <<vvars, url, dirs, interfered, hvars, prefixes, assetId, build,
                 dest, staging, cur, to, phase, net, hooks, thrown, exited,
                 completed, reaped, assetStatus, dest0, staged0, nUp>>

\* A constructor that runs the reaper whatever options.cleanupOld says.
Construct_alwaysReaps ==
  /\ pc = "boot"
  /\ \E o \in Options :
       /\ opts' = o
       /\ errorCodePrefix' = o.errorExitCodePrefix
       /\ auth' = Auth(o.skipAuth)
  /\ walk' = {p \in DestPaths : Exists(dest, p) /\ IncludesOldTag(p)}
  /\ pc' = IF walk' = {} THEN "ready" ELSE "reaping"
  /\ \E r \in Repositories :
       /\ ~MalformedRepository(r)
       /\ repository' = [given |-> TRUE, value |-> r]
  /\ ensured' = TRUE
  /\ UNCHANGED <<vvars, url, dirs, interfered, hvars, prefixes, assetId, build,
                 dest, staging, cur, to, phase, net, hooks, thrown, exited,
                 completed, reaped, assetStatus, dest0, staged0, nUp>>

\* new GithubReleasesProvider(options), in a process that starts.
Construct ==
  /\ pc = "boot"
  /\ \E o \in Options :
       /\ opts' = o
       /\ errorCodePrefix' = o.errorExitCodePrefix
       /\ auth' = Auth(o.skipAuth)
       /\ walk' = IF o.cleanupOld
                  THEN {p \in DestPaths : Exists(dest, p) /\ IncludesOldTag(p)}
                  ELSE {}
       /\ pc' = IF walk' = {} THEN "ready" ELSE "reaping"
  /\ \E r \in Repositories :
       /\ ~MalformedRepository(r)
       /\ repository' = [given |-> TRUE, value |-> r]
  /\ ensured' = TRUE
  /\ UNCHANGED <<vvars, url, dirs, interfered, hvars, prefixes, assetId, build,
                 dest, staging, cur, to, phase, net, hooks, thrown, exited,
                 completed, reaped, assetStatus, dest0, staged0, nUp>>

\* A reaper pass that leaves the files where they are.
ReapRemove_leavesFile ==
  /\ pc = "reaping"
  /\ \E p \in walk :
       /\ reaped' = reaped \cup {<<p, dest[p]>>}
       /\ walk' = walk \ {p}
       /\ pc' = IF walk' = {} THEN "ready" ELSE "reaping"
  /\ UNCHANGED <<vvars, fvars, gvars, hvars, build, opts, errorCodePrefix,
                 dest, staging, cur, to, phase, net, hooks, thrown, exited,
                 completed, assetStatus, dest0, staged0, nUp>>

\* Between the walk's listing of an entry and its removal, something else
\* removes the file (the race Deno.errors.NotFound is caught for).
EntryVanishes ==
  /\ pc = "reaping"
  /\ \E p \in walk :
       /\ Exists(dest, p)
       /\ dest' = RemoveSync(dest, p)
  /\ UNCHANGED <<vvars, fvars, gvars, hvars, build, opts, errorCodePrefix,
                 staging, walk, cur, to, phase, net, hooks, thrown, exited,
                 completed, reaped, assetStatus, dest0, staged0, nUp, pc>>

\* A reaper that removes the installed file along with its stash.
ReapRemove_takesSibling ==
  /\ pc = "reaping"
  /\ \E p \in walk :
       /\ dest' = RemoveSync(RemoveSync(dest, p), SubSeq(p, 1, Len(p) - 1))
       /\ reaped' = reaped \cup {<<p, dest[p]>>}
       /\ walk' = walk \ {p}
       /\ pc' = IF walk' = {} THEN "ready" ELSE "reaping"
  /\ UNCHANGED <<vvars, fvars, gvars, hvars, build, opts, errorCodePrefix,
                 staging, cur, to, phase, net, hooks, thrown, exited,
                 completed, assetStatus, dest0, staged0, nUp>>

\* cleanOldVersions, one entry whose path includes the marker: it is removed
\* (an entry that is gone already is passed over: NotFound).  reaped keeps
\* what the removal found at the path.
ReapRemove ==
  /\ pc = "reaping"
  /\ \E p \in walk :
       /\ dest' = IF Exists(dest, p) THEN RemoveSync(dest, p) ELSE dest
       /\ reaped' = reaped \cup {<<p, dest[p]>>}
       /\ walk' = walk \ {p}
       /\ pc' = IF walk' = {} THEN "ready" ELSE "reaping"
  /\ UNCHANGED <<vvars, fvars, gvars, hvars, build, opts, errorCodePrefix,
                 staging, cur, to, phase, net, hooks, thrown, exited,
                 completed, assetStatus, dest0, staged0, nUp>>

\* A reaper that fails without telling the error hook.
ReapFail_silent ==
  /\ pc = "reaping"
  /\ walk # {}
  /\ pc' = "crashed"
  /\ UNCHANGED <<vvars, fvars, gvars, hvars, build, opts, errorCodePrefix,
                 dest, staging, walk, cur, to, phase, net, hooks, thrown,
                 exited, completed, reaped, assetStatus, dest0, staged0, nUp>>

\* cleanOldVersions, Deno.removeSync fails with another error than NotFound:
\* error 2 goes to onError and cleanOldVersions throws; its promise is not
\* handled by the constructor, and the rejection ends the process.
ReapFail ==
  /\ pc = "reaping"
  /\ walk # {}
  /\ hooks' = Append(hooks, GHRErrorCode(errorCodePrefix, 2))
  /\ IF opts.hook = "returns"
     THEN pc' = "crashed" /\ exited' = exited
     ELSE pc' = "exited" /\ exited' = <<GHRErrorCode(errorCodePrefix, 2)>>
  /\ UNCHANGED <<vvars, fvars, gvars, hvars, build, opts, errorCodePrefix,
                 dest, staging, walk, cur, to, phase, net, thrown, completed,
                 reaped, assetStatus, dest0, staged0, nUp>>

\* upgrade({name, from, to}) is called on the engine.
UpgradeCall ==
  /\ pc = "ready"
  /\ nUp < MaxUpgrades
  /\ \E o \in UpgradeOptions :
       /\ options' = o
       /\ to' = o.to
  /\ versions' = NoResult
  /\ tags' = <<>>
  /\ release' = NoRelease
  /\ printed' = FALSE
  /\ reapedBefore' = NoPass
  /\ reaped' = {}
  /\ nUp' = nUp + 1
  /\ pc' = "getVersions"
  /\ phase' = "ResolvingVersion"
  /\ net' = <<>>
  /\ hooks' = <<>>
  /\ thrown' = NoThrow
  /\ completed' = <<>>
  /\ assetStatus' = <<>>
  /\ dest0' = dest
  /\ staged0' = {}
  /\ staging' = EmptyDir(StagedPaths)
  /\ walk' = {}
  /\ cur' = NoPath
  /\ UNCHANGED <<vvars, fvars, gvars, build, opts, errorCodePrefix, dest,
                 exited>>

\* What a failing step leaves alone besides pc, hooks, thrown, exited, net,
\* tags and release.
FetchFrame ==
  UNCHANGED <<vvars, auth, dirs, interfered, gvars, build, opts,
              errorCodePrefix, dest, staging, walk, cur, to, phase, completed,
              reaped, assetStatus, dest0, staged0, nUp, options, versions,
              printed, reapedBefore>>

\* What a failing step that issues no anonymous fetch leaves alone.
FailFrame == FetchFrame /\ UNCHANGED url

\* A getVersions that asks for the release list again after a failure the
\* hook returned from.
GetVersionsFail_retries ==
  /\ pc = "getVersions"
  /\ Len(net) < 2
  /\ net' = Append(net, "list")
  /\ \E status \in ErrorStatuses :
       hooks' = Append(hooks, GHRErrorCode(errorCodePrefix,
                                           parseInt(<<"7">> \o status)))
  /\ UNCHANGED <<pc, thrown, exited, tags, release>>
  /\ FailFrame

\* getVersions: the release-list request throws; the code is
\* parseInt(`7${status}`).
GetVersionsFail ==
  /\ pc = "getVersions"
  /\ net' = Append(net, "list")
  /\ \E status \in ErrorStatuses : Signal(<<parseInt(<<"7">> \o status)>>)
  /\ UNCHANGED <<tags, release>>
  /\ FailFrame

\* A resolution that installs the latest version whatever was asked for.
GetVersionsOk_latestAlways ==
  /\ pc = "getVersions"
  /\ net' = Append(net, "list")
  /\ \E data \in RemoteLists :
       /\ versions' = getVersions(data, opts.prerelease)
       /\ to' = versions'.latest
  /\ phase' = "Fetching"
  /\ pc' = IF opts.skipAuth THEN "direct" ELSE "release"
  /\ UNCHANGED <<vvars, fvars, gvars, build, opts, errorCodePrefix, dest,
                 staging, walk, cur, hooks, thrown, exited, completed, reaped,
                 assetStatus, dest0, staged0, nUp, options, tags, release,
                 printed, reapedBefore>>

\* An upgrade that asks for the release list only when the target is
\* "latest".
GetVersionsOk_listOnlyForLatest ==
  /\ pc = "getVersions"
  /\ net' = IF to = LATEST THEN Append(net, "list") ELSE net
  /\ \E data \in RemoteLists :
       /\ versions' = getVersions(data, opts.prerelease)
       /\ to' = IF to = LATEST THEN versions'.latest ELSE to
  /\ phase' = "Fetching"
  /\ pc' = IF opts.skipAuth THEN "direct" ELSE "release"
  /\ UNCHANGED <<vvars, fvars, gvars, build, opts, errorCodePrefix, dest,
                 staging, walk, cur, hooks, thrown, exited, completed, reaped,
                 assetStatus, dest0, staged0, nUp, options, tags, release,
                 printed, reapedBefore>>

\* getVersions returns; `to` is resolved; the staging directory is made.
GetVersionsOk ==
  /\ pc = "getVersions"
  /\ net' = Append(net, "list")
  /\ \E data \in RemoteLists :
       /\ versions' = getVersions(data, opts.prerelease)
       /\ to' = IF to = LATEST THEN versions'.latest ELSE to
  /\ phase' = "Fetching"
  /\ pc' = IF opts.skipAuth THEN "direct" ELSE "release"
  /\ UNCHANGED <<vvars, fvars, gvars, build, opts, errorCodePrefix, dest,
                 staging, walk, cur, hooks, thrown, exited, completed, reaped,
                 assetStatus, dest0, staged0, nUp, options, tags, release,
                 printed, reapedBefore>>

\* getVersions returns and `to` is resolved; Deno.makeTempDirSync() throws:
\* nothing catches it, so upgrade() rejects with that error and onError is
\* not called.
MakeTempDirFail ==
  /\ pc = "getVersions"
  /\ net' = Append(net, "list")
  /\ \E data \in RemoteLists :
       /\ versions' = getVersions(data, opts.prerelease)
       /\ to' = IF to = LATEST THEN versions'.latest ELSE to
  /\ phase' = "Fetching"
  /\ thrown' = [kind |-> "Error", code |-> 0]
  /\ pc' = "rejected"
  /\ UNCHANGED <<vvars, fvars, gvars, build, opts, errorCodePrefix, dest,
                 staging, walk, cur, hooks, exited, completed, reaped,
                 assetStatus, dest0, staged0, nUp, options, tags, release,
                 printed, reapedBefore>>

\* A skipAuth branch that fetches before it looks the asset name up.
DirectNoAssetName_afterFetch ==
  /\ pc = "direct"
  /\ getAssetName(build, opts.targetAssetMap) = NoAssetName
  /\ net' = Append(net, "download")
  /\ url' = DownloadUrl(Owner(repository.value), Repo(repository.value), to,
                      getAssetName(build, opts.targetAssetMap))
  /\ tags' = Append(tags, to)
  /\ release' = release
  /\ Signal(<<3, 5>>)
  /\ FetchFrame

\* skipAuth, no asset name for the platform: error 3 goes to onError and is
\* thrown inside the try block; the catch block wraps it in error 5, hands
\* that to onError and throws it.
DirectNoAssetName ==
  /\ pc = "direct"
  /\ getAssetName(build, opts.targetAssetMap) = NoAssetName
  /\ net' = net
  /\ UNCHANGED <<tags, release>>
  /\ Signal(<<3, 5>>)
  /\ FailFrame

\* skipAuth: fetch(url) throws; the catch block signals error 5.
DirectFetchThrows ==
  /\ pc = "direct"
  /\ getAssetName(build, opts.targetAssetMap) # NoAssetName
  /\ net' = Append(net, "download")
  /\ url' = DownloadUrl(Owner(repository.value), Repo(repository.value), to,
                      getAssetName(build, opts.targetAssetMap))
  /\ tags' = Append(tags, to)
  /\ release' = release
  /\ Signal(<<5>>)
  /\ FetchFrame

\* A skipAuth branch that extracts whatever the download answered.
DirectFetchNotOk_extracts ==
  /\ pc = "direct"
  /\ getAssetName(build, opts.targetAssetMap) # NoAssetName
  /\ net' = Append(net, "download")
  /\ url' = DownloadUrl(Owner(repository.value), Repo(repository.value), to,
                      getAssetName(build, opts.targetAssetMap))
  /\ tags' = Append(tags, to)
  /\ \E status \in {Status404, Status500} : assetStatus' = status
  /\ phase' = "Extracting"
  /\ pc' = "inflate"
  /\ UNCHANGED <<vvars, auth, dirs, interfered, gvars, build, opts,
                 errorCodePrefix, dest, staging, walk, cur, to, hooks, thrown,
                 exited, completed, reaped, dest0, staged0, nUp, options,
                 versions, release, printed, reapedBefore>>

\* skipAuth: fetch(url) answers with another status than 200: error
\* parseInt(`5${status}`) goes to onError and is thrown inside the try block;
\* the catch block wraps it in error 5.
DirectFetchNotOk ==
  /\ pc = "direct"
  /\ getAssetName(build, opts.targetAssetMap) # NoAssetName
  /\ net' = Append(net, "download")
  /\ url' = DownloadUrl(Owner(repository.value), Repo(repository.value), to,
                      getAssetName(build, opts.targetAssetMap))
  /\ tags' = Append(tags, to)
  /\ \E status \in {Status404, Status500} :
       /\ assetStatus' = status
       /\ Signal(<<parseInt(<<"5">> \o status), 5>>)
  /\ UNCHANGED <<vvars, auth, dirs, interfered, gvars, build, opts,
                 errorCodePrefix, dest, staging, walk, cur, to, phase,
                 completed, reaped, dest0, staged0, nUp, options, versions,
                 release, printed, reapedBefore>>

\* A skipAuth branch that builds the url from the tag as it was asked for.
DirectFetchOk_requestedTag ==
  /\ pc = "direct"
  /\ getAssetName(build, opts.targetAssetMap) # NoAssetName
  /\ net' = Append(net, "download")
  /\ url' = DownloadUrl(Owner(repository.value), Repo(repository.value),
                      options.to,
                      getAssetName(build, opts.targetAssetMap))
  /\ tags' = Append(tags, to)
  /\ assetStatus' = Status200
  /\ phase' = "Extracting"
  /\ pc' = "inflate"
  /\ UNCHANGED <<vvars, auth, dirs, interfered, gvars, build, opts,
                 errorCodePrefix, dest, staging, walk, cur, to, hooks, thrown,
                 exited, completed, reaped, dest0, staged0, nUp, options,
                 versions, release, printed, reapedBefore>>

\* skipAuth: fetch(url) answers 200.
DirectFetchOk ==
  /\ pc = "direct"
  /\ getAssetName(build, opts.targetAssetMap) # NoAssetName
  /\ net' = Append(net, "download")
  /\ url' = DownloadUrl(Owner(repository.value), Repo(repository.value), to,
                      getAssetName(build, opts.targetAssetMap))
  /\ tags' = Append(tags, to)
  /\ assetStatus' = Status200
  /\ phase' = "Extracting"
  /\ pc' = "inflate"
  /\ UNCHANGED <<vvars, auth, dirs, interfered, gvars, build, opts,
                 errorCodePrefix, dest, staging, walk, cur, to, hooks, thrown,
                 exited, completed, reaped, dest0, staged0, nUp, options,
                 versions, release, printed, reapedBefore>>

\* Authenticated: the release request throws; the code is
\* parseInt(`5${caught.status || ""}`).
ReleaseFail ==
  /\ pc = "release"
  /\ net' = Append(net, "release")
  /\ tags' = Append(tags, to)
  /\ release' = release
  /\ \E status \in ErrorStatuses :
       Signal(<<parseInt(<<"5">> \o StatusOrEmpty(status))>>)
  /\ FailFrame

\* assets.find((asset) => asset.name === name), for a list that holds one.
FindAsset(assets, name) ==
  LET i == CHOOSE i \in 1..Len(assets) :
             /\ assets[i].name = name
             /\ \A j \in 1..(i - 1) : assets[j].name # name
  IN assets[i]

HasAsset(assets, name) == \E i \in 1..Len(assets) : assets[i].name = name

\* A getOctokitAssetRequest with one code for both failures.
ReleaseOkNoAsset_sameCode ==
  /\ pc = "release"
  /\ net' = Append(net, "release")
  /\ tags' = Append(tags, to)
  /\ \E assets \in AssetLists :
       LET assetName == getAssetName(build, opts.targetAssetMap)
       IN /\ release' = [fetched |-> TRUE, assets |-> assets]
          /\ IF assetName = NoAssetName THEN Signal(<<3>>)
             ELSE /\ ~HasAsset(assets, assetName)
                  /\ Signal(<<3>>)
  /\ FailFrame

\* Authenticated: the release is fetched; getOctokitAssetRequest finds no
\* asset name for the platform (error 3) or no asset of that name in the
\* release (error 4).
ReleaseOkNoAsset ==
  /\ pc = "release"
  /\ net' = Append(net, "release")
  /\ tags' = Append(tags, to)
  /\ \E assets \in AssetLists :
       LET assetName == getAssetName(build, opts.targetAssetMap)
       IN /\ release' = [fetched |-> TRUE, assets |-> assets]
          /\ IF assetName = NoAssetName THEN Signal(<<3>>)
             ELSE /\ ~HasAsset(assets, assetName)
                  /\ Signal(<<4>>)
  /\ FailFrame

\* Authenticated: the release is fetched and holds the asset.
ReleaseOk ==
  /\ pc = "release"
  /\ net' = Append(net, "release")
  /\ tags' = Append(tags, to)
  /\ \E assets \in AssetLists :
       /\ getAssetName(build, opts.targetAssetMap) # NoAssetName
       /\ HasAsset(assets, getAssetName(build, opts.targetAssetMap))
       /\ release' = [fetched |-> TRUE, assets |-> assets]
  /\ pc' = "asset"
  /\ UNCHANGED <<vvars, fvars, gvars, build, opts, errorCodePrefix, dest,
                 staging, walk, cur, to, phase, hooks, thrown, exited,
                 completed, reaped, assetStatus, dest0, staged0, nUp, options,
                 versions, printed, reapedBefore>>

\* An authenticated branch that hands the answer of a failed asset request
\* to the extraction.
AssetFail_extracts ==
  /\ pc = "asset"
  /\ net' = Append(net, "asset")
  /\ assetId' = <<FindAsset(release.assets,
                           getAssetName(build, opts.targetAssetMap)).id>>
  /\ \E status \in {Status404, Status500} : assetStatus' = status
  /\ phase' = "Extracting"
  /\ pc' = "inflate"
  /\ UNCHANGED <<vvars, fvars, hvars, prefixes, repository, ensured, build,
                 opts, errorCodePrefix, dest, staging, walk, cur, to, hooks,
                 thrown, exited, completed, reaped, dest0, staged0, nUp>>

\* Authenticated: the asset request throws; the code is
\* parseInt(`6${caught.status}`).
AssetFail ==
  /\ pc = "asset"
  /\ net' = Append(net, "asset")
  /\ assetId' = <<FindAsset(release.assets,
                           getAssetName(build, opts.targetAssetMap)).id>>
  /\ \E status \in ErrorStatuses :
       /\ assetStatus' = status
       /\ Signal(<<parseInt(<<"6">> \o status)>>)
  /\ UNCHANGED <<vvars, fvars, hvars, prefixes, repository, ensured, build,
                 opts, errorCodePrefix, dest, staging, walk, cur, to, phase,
                 completed, reaped, dest0, staged0, nUp>>

\* A getOctokitAssetRequest that asks for the first asset of the release.
AssetOk_firstAsset ==
  /\ pc = "asset"
  /\ net' = Append(net, "asset")
  /\ assetId' = <<release.assets[1].id>>
  /\ assetStatus' = Status200
  /\ phase' = "Extracting"
  /\ pc' = "inflate"
  /\ UNCHANGED <<vvars, fvars, hvars, prefixes, repository, ensured, build,
                 opts, errorCodePrefix, dest, staging, walk, cur, to, hooks,
                 thrown, exited, completed, reaped, dest0, staged0, nUp>>

\* Authenticated: the asset request returns the bytes.
AssetOk ==
  /\ pc = "asset"
  /\ net' = Append(net, "asset")
  /\ assetId' = <<FindAsset(release.assets,
                           getAssetName(build, opts.targetAssetMap)).id>>
  /\ assetStatus' = Status200
  /\ phase' = "Extracting"
  /\ pc' = "inflate"
  /\ UNCHANGED <<vvars, fvars, hvars, prefixes, repository, ensured, build,
                 opts, errorCodePrefix, dest, staging, walk, cur, to, hooks,
                 thrown, exited, completed, reaped, dest0, staged0, nUp>>

\* An extraction that unpacks into the destination directory and fails.
InflateFail_intoDest ==
  /\ pc = "inflate"
  /\ \E p \in InstallPaths : dest' = [dest EXCEPT ![p] = ReleaseFile(nUp)]
  /\ Signal(<<8>>)
  /\ UNCHANGED <<vvars, fvars, gvars, hvars, build, opts, errorCodePrefix,
                 staging, walk, cur, to, phase, net, completed, reaped,
                 assetStatus, dest0, staged0, nUp>>

\* inflateResponse throws: error 8 (error 3 if the platform had no asset
\* name).  What it left in the staging directory is not looked at again.
InflateFail ==
  /\ pc = "inflate"
  /\ IF getAssetName(build, opts.targetAssetMap) = NoAssetName
     THEN Signal(<<3>>)
     ELSE Signal(<<8>>)
  /\ UNCHANGED <<net, tags, release>>
  /\ FailFrame

\* inflateResponse unpacks the archive into the staging directory.
InflateOk ==
  /\ pc = "inflate"
  /\ \E files \in SUBSET StagedPaths :
       /\ staging' = [p \in StagedPaths |->
                        IF p \in files THEN ReleaseFile(nUp) ELSE NoFile]
       /\ staged0' = files
       /\ walk' = files
       /\ pc' = IF files = {} THEN "complete" ELSE "stash"
  /\ phase' = "Installing"
  /\ cur' = NoPath
  /\ UNCHANGED <<vvars, fvars, gvars, hvars, build, opts, errorCodePrefix,
                 dest, to, net, hooks, thrown, exited, completed, reaped,
                 assetStatus, dest0, nUp>>

\* An install loop that does not stash the old version.
StashOld_noStash ==
  /\ pc = "stash"
  /\ \E entry \in walk : cur' = entry
  /\ pc' = "install"
  /\ UNCHANGED <<vvars, fvars, gvars, hvars, build, opts, errorCodePrefix,
                 dest, staging, walk, to, phase, net, hooks, thrown, exited,
                 completed, reaped, assetStatus, dest0, staged0, nUp>>

\* An install loop that keeps a stash that is already there and drops the
\* old version instead.
StashOld_keepsOldStash ==
  /\ pc = "stash"
  /\ \E entry \in walk :
       /\ cur' = entry
       /\ dest' = IF ~Exists(dest, FinalPath(entry)) THEN dest
                  ELSE IF Exists(dest, StashPath(FinalPath(entry)))
                  THEN RemoveSync(dest, FinalPath(entry))
                  ELSE RenameSync(dest, FinalPath(entry),
                                  StashPath(FinalPath(entry)))
  /\ pc' = "install"
  /\ UNCHANGED <<vvars, fvars, gvars, hvars, build, opts, errorCodePrefix,
                 staging, walk, to, phase, net, hooks, thrown, exited,
                 completed, reaped, assetStatus, dest0, staged0, nUp>>

\* An install loop that removes the old version instead of stashing it.
StashOld_removes ==
  /\ pc = "stash"
  /\ \E entry \in walk :
       /\ cur' = entry
       /\ dest' = RemoveSync(dest, FinalPath(entry))
  /\ pc' = "install"
  /\ UNCHANGED <<vvars, fvars, gvars, hvars, build, opts, errorCodePrefix,
                 staging, walk, to, phase, net, hooks, thrown, exited,
                 completed, reaped, assetStatus, dest0, staged0, nUp>>

\* Install loop, next file entry of the walk: the old version is stashed, or
\* there is none (NotFound).
StashOld ==
  /\ pc = "stash"
  /\ \E entry \in walk :
       /\ cur' = entry
       /\ dest' = IF Exists(dest, FinalPath(entry))
                  THEN RenameSync(dest, FinalPath(entry),
                                  StashPath(FinalPath(entry)))
                  ELSE dest
  /\ pc' = "install"
  /\ UNCHANGED <<vvars, fvars, gvars, hvars, build, opts, errorCodePrefix,
                 staging, walk, to, phase, net, hooks, thrown, exited,
                 completed, reaped, assetStatus, dest0, staged0, nUp>>

\* An install loop that installs the staged file although the stash rename
\* failed.
StashFail_installs ==
  /\ pc = "stash"
  /\ \E entry \in walk :
       /\ cur' = entry
       /\ dest' = RenameInto(dest, FinalPath(entry), staging[entry])
       /\ staging' = [staging EXCEPT ![entry] = NoFile]
  /\ Signal(<<9>>)
  /\ UNCHANGED <<vvars, fvars, gvars, hvars, build, opts, errorCodePrefix,
                 walk, to, phase, net, completed, reaped, assetStatus, dest0,
                 staged0, nUp>>

\* Install loop: the stash rename fails with another error than NotFound.
StashFail ==
  /\ pc = "stash"
  /\ \E entry \in walk : cur' = entry
  /\ Signal(<<9>>)
  /\ UNCHANGED <<vvars, fvars, gvars, hvars, build, opts, errorCodePrefix,
                 dest, staging, walk, to, phase, net, completed, reaped,
                 assetStatus, dest0, staged0, nUp>>

\* An install rename that also removes the stash.
InstallNew_dropsStash ==
  /\ pc = "install"
  /\ DirExists(dirs, Dirname(FinalPath(cur)))
  /\ dest' = RemoveSync(RenameInto(dest, FinalPath(cur), staging[cur]),
                        StashPath(FinalPath(cur)))
  /\ staging' = [staging EXCEPT ![cur] = NoFile]
  /\ IF build.os # "windows"
     THEN pc' = "chmod" /\ walk' = walk
     ELSE /\ walk' = walk \ {cur}
          /\ pc' = IF walk' = {} THEN "complete" ELSE "stash"
  /\ UNCHANGED <<vvars, fvars, gvars, hvars, build, opts, errorCodePrefix, cur,
                 to, phase, net, hooks, thrown, exited, completed, reaped,
                 assetStatus, dest0, staged0, nUp>>

\* Install loop: the staged file is renamed to its final path, which takes
\* the directory of the final path to exist.
InstallNew ==
  /\ pc = "install"
  /\ DirExists(dirs, Dirname(FinalPath(cur)))
  /\ dest' = RenameInto(dest, FinalPath(cur), staging[cur])
  /\ staging' = [staging EXCEPT ![cur] = NoFile]
  /\ IF build.os # "windows"
     THEN pc' = "chmod" /\ walk' = walk
     ELSE /\ walk' = walk \ {cur}
          /\ pc' = IF walk' = {} THEN "complete" ELSE "stash"
  /\ UNCHANGED <<vvars, fvars, gvars, hvars, build, opts, errorCodePrefix, cur,
                 to, phase, net, hooks, thrown, exited, completed, reaped,
                 assetStatus, dest0, staged0, nUp>>

\* An install loop that renames the stash back when the install rename
\* fails.
InstallFail_restores ==
  /\ pc = "install"
  /\ dest' = IF Exists(dest, StashPath(FinalPath(cur)))
             THEN RenameSync(dest, StashPath(FinalPath(cur)), FinalPath(cur))
             ELSE dest
  /\ Signal(<<10>>)
  /\ UNCHANGED <<vvars, fvars, gvars, hvars, build, opts, errorCodePrefix,
                 staging, walk, cur, to, phase, net, completed, reaped,
                 assetStatus, dest0, staged0, nUp>>

\* An install loop that goes on with the next file when the hook returns
\* from error 10.
InstallFail_goesOn ==
  /\ pc = "install"
  /\ opts.hook = "returns"
  /\ hooks' = Append(hooks, GHRErrorCode(errorCodePrefix, 10))
  /\ walk' = walk \ {cur}
  /\ pc' = IF walk' = {} THEN "complete" ELSE "stash"
  /\ UNCHANGED <<vvars, fvars, gvars, hvars, build, opts, errorCodePrefix,
                 dest, staging, cur, to, phase, net, thrown, exited,
                 completed, reaped, assetStatus, dest0, staged0, nUp>>

\* Install loop: the install rename fails.
InstallFail ==
  /\ pc = "install"
  /\ Signal(<<10>>)
  /\ UNCHANGED <<net, tags, release>>
  /\ FailFrame

\* An install loop that leaves the mode of the installed file as extracted.
Chmod_leavesMode ==
  /\ pc = "chmod"
  /\ dest' = dest
  /\ walk' = walk \ {cur}
  /\ pc' = IF walk' = {} THEN "complete" ELSE "stash"
  /\ UNCHANGED <<vvars, fvars, gvars, hvars, build, opts, errorCodePrefix,
                 staging, cur, to, phase, net, hooks, thrown, exited,
                 completed, reaped, assetStatus, dest0, staged0, nUp>>

\* Install loop, not on Windows: the installed file is made executable.
Chmod ==
  /\ pc = "chmod"
  /\ dest' = ChmodSync(dest, FinalPath(cur))
  /\ walk' = walk \ {cur}
  /\ pc' = IF walk' = {} THEN "complete" ELSE "stash"
  /\ UNCHANGED <<vvars, fvars, gvars, hvars, build, opts, errorCodePrefix,
                 staging, cur, to, phase, net, hooks, thrown, exited,
                 completed, reaped, assetStatus, dest0, staged0, nUp>>

\* Install loop: Deno.chmodSync throws; nothing catches it, so upgrade()
\* rejects with that error and onError is not called.
ChmodFail ==
  /\ pc = "chmod"
  /\ thrown' = [kind |-> "Error", code |-> 0]
  /\ pc' = "rejected"
  /\ UNCHANGED <<vvars, fvars, gvars, hvars, build, opts, errorCodePrefix,
                 dest, staging, walk, cur, to, phase, net, hooks, exited,
                 completed, reaped, assetStatus, dest0, staged0, nUp>>

\* A success hook that is told the target as it was asked for.
Complete_requestedTo ==
  /\ pc = "complete"
  /\ completed' = Append(completed, [to |-> options.to, from |-> options.from])
  /\ printed' = (opts.onComplete = "callsBack")
  /\ phase' = "Complete"
  /\ pc' = "resolved"
  /\ UNCHANGED <<vvars, fvars, gvars, build, opts, errorCodePrefix, dest,
                 staging, walk, cur, to, net, hooks, thrown, exited, reaped,
                 assetStatus, dest0, staged0, nUp, options, versions, tags,
                 release, reapedBefore>>

\* this.onComplete({to, from}, printSuccessMessage); upgrade() resolves.  The
\* message is printed if the hook calls the callback.
Complete ==
  /\ pc = "complete"
  /\ completed' = Append(completed, [to |-> to, from |-> options.from])
  /\ printed' = (opts.onComplete = "callsBack")
  /\ phase' = "Complete"
  /\ pc' = "resolved"
  /\ UNCHANGED <<vvars, fvars, gvars, build, opts, errorCodePrefix, dest,
                 staging, walk, cur, to, net, hooks, thrown, exited, reaped,
                 assetStatus, dest0, staged0, nUp, options, versions, tags,
                 release, reapedBefore>>

Next ==
  \/ ProcessEnd
  \/ ConstructBadRepository
  \/ Construct \/ EntryVanishes \/ ReapRemove \/ ReapFail
  \/ UpgradeCall
  \/ GetVersionsFail \/ GetVersionsOk \/ MakeTempDirFail
  \/ DirectNoAssetName \/ DirectFetchThrows \/ DirectFetchNotOk \/ DirectFetchOk
  \/ ReleaseFail \/ ReleaseOkNoAsset \/ ReleaseOk
  \/ AssetFail \/ AssetOk
  \/ InflateFail \/ InflateOk
  \/ StashOld \/ StashFail
  \/ InstallNew \/ InstallFail
  \/ Chmod \/ ChmodFail
  \/ Complete

Spec == Init /\ [][Next]_vars

\* ------------------------------------- two engines on one directory

\* The state of an engine whose first upgrade, of a direct download of tag
\* 1.9.9, has extracted the archive: the install loop starts on destination
\* directory d with subdirectories ds, on platform b, with the staging
\* directory staged, for constructor options o.
InstallLoopStart(d, ds, b, staged, o) ==
  /\ vData = <<>>
  /\ vPrerelease = FALSE
  /\ vResult = NoResult
  /\ pc = "stash"
  /\ build = b
  /\ opts = o
  /\ errorCodePrefix = o.errorExitCodePrefix
  /\ dest = d
  /\ dest0 = d
  /\ dirs = ds
  /\ staging = staged
  /\ staged0 = {p \in DOMAIN staged : Exists(staged, p)}
  /\ walk = {p \in DOMAIN staged : Exists(staged, p)}
  /\ cur = NoPath
  /\ to = Tag_1_9_9
  /\ phase = "Installing"
  /\ net = <<"list", "download">>
  /\ hooks = <<>>
  /\ thrown = NoThrow
  /\ exited = <<>>
  /\ completed = <<>>
  /\ reaped = {}
  /\ assetStatus = Status200
  /\ nUp = 1
  /\ options = [called |-> TRUE, to |-> Tag_1_9_9, from |-> UNDEFINED]
  /\ versions = getVersions(<<>>, o.prerelease)
  /\ tags = <<Tag_1_9_9>>
  /\ release = NoRelease
  /\ printed = FALSE
  /\ reapedBefore = NoPass
  /\ prefixes = <<>>
  /\ repository = [given |-> TRUE, value |-> <<"acme", "/", "tool">>]
  /\ ensured = TRUE
  /\ assetId = <<>>
  /\ auth = Auth(o.skipAuth)
  /\ url = DownloadUrl(<<"acme">>, <<"tool">>, Tag_1_9_9,
                       getAssetName(b, o.targetAssetMap))
  /\ interfered = FALSE

\* The constructor options of the install loops followed on their own: a
\* direct download with no reaper pass.
LoopOptions == {o \in Options : o.skipAuth /\ ~o.cleanupOld}

\* The platforms the asset map has an asset for.
LoopBuilds ==
  {b \in Builds : getAssetName(b, TargetAssetMap) # NoAssetName}

InitWriters ==
  \E d \in InitialDests, b \in LoopBuilds, o \in LoopOptions,
     files \in SUBSET StagedPaths \ {{}} :
    InstallLoopStart(d, {}, b,
                     [p \in StagedPaths |->
                        IF p \in files THEN ReleaseFile(1) ELSE NoFile], o)

\* What the upgrade of another engine installs.
OtherFile == [src |-> "other", n |-> 0, mode |-> "0644"]

\* Another engine is constructed on the same destination directory while
\* this engine is between its stash rename and its install rename: the
\* reaper pass of its constructor removes an entry whose path includes the
\* marker.
OtherReapRemove ==
  /\ pc = "install"
  /\ ~interfered
  /\ \E p \in DestPaths :
       /\ IncludesOldTag(p)
       /\ Exists(dest, p)
       /\ dest' = RemoveSync(dest, p)
  /\ interfered' = TRUE
  /\ UNCHANGED <<vvars, gvars, hvars, auth, url, dirs, pc, build, opts,
                 errorCodePrefix, staging, walk, cur, to, phase, net, hooks,
                 thrown, exited, completed, reaped, assetStatus, dest0,
                 staged0, nUp>>

\* The install loop of another engine's upgrade handles one file while this
\* engine is between its stash rename and its install rename: it stashes the
\* file at the final path if there is one, and installs its own.
OtherInstall ==
  /\ pc = "install"
  /\ ~interfered
  /\ \E p \in InstallPaths :
       LET stashed == IF Exists(dest, p)
                      THEN RenameSync(dest, p, StashPath(p))
                      ELSE dest
       IN dest' = RenameInto(stashed, p, OtherFile)
  /\ interfered' = TRUE
  /\ UNCHANGED <<vvars, gvars, hvars, auth, url, dirs, pc, build, opts,
                 errorCodePrefix, staging, walk, cur, to, phase, net, hooks,
                 thrown, exited, completed, reaped, assetStatus, dest0,
                 staged0, nUp>>

NextWriters ==
  \/ StashOld \/ StashFail
  \/ InstallNew \/ InstallFail
  \/ Chmod \/ ChmodFail
  \/ Complete
  \/ OtherReapRemove \/ OtherInstall

SpecWriters == InitWriters /\ [][NextWriters]_vars

\* ------------------------------------- an archive with a subdirectory

\* The regular files of a release archive that holds one of them in a
\* subdirectory, as walkSync(stagingDir) reports them.
TreeStagedPaths ==
  StagedPaths \cup {<<StagingDir, "/", "lib", "/", "tool-plugin">>}

TreeInstallPaths == {FinalPath(p) : p \in TreeStagedPaths}
TreeDestPaths ==
  TreeInstallPaths \cup {StashPath(p) : p \in TreeInstallPaths}

\* The subdirectories the destination directory may hold.
TreeDirs == {Dirname(p) : p \in TreeInstallPaths} \ {<<DestinationDir>>}

\* The destination directory with the subdirectories ds before the upgrade:
\* empty, or with files an earlier version installed, each in a directory
\* that exists.
TreeDests(ds) ==
  {d \in [TreeDestPaths -> {NoFile, OrigFile}] :
     \A p \in TreeDestPaths :
       Exists(d, p) => (~IncludesOldTag(p) /\ DirExists(ds, Dirname(p)))}

InitTree ==
  \E ds \in SUBSET TreeDirs, b \in LoopBuilds, o \in LoopOptions,
     files \in SUBSET TreeStagedPaths \ {{}} :
    \E d \in TreeDests(ds) :
      InstallLoopStart(d, ds, b,
                       [p \in TreeStagedPaths |->
                          IF p \in files THEN ReleaseFile(1) ELSE NoFile], o)

NextTree ==
  \/ StashOld \/ StashFail
  \/ InstallNew \/ InstallFail
  \/ Chmod \/ ChmodFail
  \/ Complete

SpecTree == InitTree /\ [][NextTree]_vars

\* =========================================================== claims C8-C10

Members(seq) == {seq[i] : i \in 1..Len(seq)}

AllParse(seq) == \A i \in 1..Len(seq) : tryParse(seq[i]).ok

\* v[i] is at least v[j] in semantic-version precedence.
AtLeast(a, b) == compare(tryParse(a), tryParse(b)) >= 0

\* C8: the Version Set of a getVersions call holds no tag of a draft release,
\* holds the tag of a non-draft prerelease exactly when provider.prerelease
\* was set at the time of the call, and holds every other tag.
C8_VersionSetFilter ==
  vResult.called =>
    \A i \in 1..Len(vData) :
      LET r  == vData[i]
          in == r.tag_name \in Members(vResult.versions)
      IN /\ r.draft => ~in
         /\ (~r.draft /\ r.prerelease) => (in <=> vResult.prerelease)
         /\ (~r.draft /\ ~r.prerelease) => in

\* A call with inclusion enabled on a list holding a draft, a prerelease and
\* a plain release.
C8_Witness ==
  /\ vResult.called
  /\ vResult.prerelease
  /\ \E i, j, k \in 1..Len(vData) :
       /\ vData[i].draft
       /\ ~vData[j].draft /\ vData[j].prerelease
       /\ ~vData[k].draft /\ ~vData[k].prerelease
  /\ Len(vResult.versions) = 2

\* C9: when every eligible tag parses, the returned tags are in descending
\* semantic-version order and latest is the maximum, whatever the order of
\* the release list.
C9_DescendingWhenAllParse ==
  (vResult.called /\ AllParse(vResult.versions)) =>
    /\ \A i, j \in 1..Len(vResult.versions) :
         i < j => AtLeast(vResult.versions[i], vResult.versions[j])
    /\ Len(vResult.versions) > 0 =>
         /\ vResult.latest \in Members(vResult.versions)
         /\ \A t \in Members(vResult.versions) : AtLeast(vResult.latest, t)

\* The list 1.2.0, 2.0.0, 1.9.9 gives latest = 2.0.0.
C9_Witness ==
  /\ vResult.called
  /\ TagNames(vData) = <<Tag_1_2_0, Tag_2_0_0, Tag_1_9_9>>
  /\ vResult.versions = <<Tag_2_0_0, Tag_1_9_9, Tag_1_2_0>>
  /\ vResult.latest = Tag_2_0_0

\* C10: with an unparsable tag in the list, the parsable tags of the Version
\* Set are still in descending order relative to each other, so latest is
\* never a parsable tag smaller than another parsable tag of the set.
C10_ParsableStayOrdered ==
  vResult.called =>
    /\ \A i, j \in 1..Len(vResult.versions) :
         (i < j /\ tryParse(vResult.versions[i]).ok
                /\ tryParse(vResult.versions[j]).ok)
           => AtLeast(vResult.versions[i], vResult.versions[j])
    /\ \A t \in Members(vResult.versions) :
         (tryParse(vResult.latest).ok /\ tryParse(t).ok)
           => AtLeast(vResult.latest, t)

\* ============================================================ claims C1-C7

\* The base code b as an engine of the current prefix emits it.
Code(b) == GHRErrorCode(errorCodePrefix, b)

HookGot(code) == \E i \in 1..Len(hooks) : hooks[i] = code

\* The platform of the running binary has no entry in the engine's map.
NoAssetForPlatform ==
  /\ opts # NoEngine
  /\ getAssetName(build, opts.targetAssetMap) = NoAssetName

StashPaths == {p \in DestPaths : IncludesOldTag(p)}

UpgradePcs == {"getVersions", "direct", "release", "asset", "inflate",
               "stash", "install", "chmod", "complete"}

\* C1: when upgrade() has returned control (resolved or rejected), every
\* destination path that held a file when it was called still holds a file,
\* with the previous or the new bytes.
C1_NeverHalfInstalled ==
  pc \in {"resolved", "rejected"} =>
    \A p \in InstallPaths :
      Exists(dest0, p) =>
        /\ Exists(dest, p)
        /\ Bytes(dest[p]) \in {Bytes(dest0[p]), Bytes(ReleaseFile(nUp))}

\* C2: after a successful install, every staged file whose destination path
\* held a file has the staged bytes at that path, and the stashed sibling
\* holds the file the path held before.
C2_InstallerRoundTrip ==
  pc = "resolved" =>
    \A entry \in staged0 :
      LET finalPath == FinalPath(entry)
      IN Exists(dest0, finalPath) =>
           /\ Bytes(dest[finalPath]) = Bytes(ReleaseFile(nUp))
           /\ dest[finalPath \o <<OLD_VERSION_TAG>>] = dest0[finalPath]

\* Two staged files were installed over two files.
C2_Witness ==
  /\ pc = "resolved"
  /\ Cardinality(staged0) = 2
  /\ \A entry \in staged0 : Exists(dest0, FinalPath(entry))

\* C3: no step of an upgrade removes a stashed sibling (one created by the
\* upgrade is still there when it returns), and when an engine constructed
\* with cleanup enabled is ready, no stashed sibling is left.
C3_StashLifecycle ==
  [][/\ pc \in UpgradePcs =>
          \A p \in StashPaths : Exists(dest, p) => Exists(dest', p)
     /\ (pc' = "ready" /\ opts'.cleanupOld) =>
          \A p \in StashPaths : ~Exists(dest', p)]_vars

\* An engine is ready whose reaper removed a stash that an upgrade made (it
\* held an installed file).
C3_Witness ==
  /\ pc = "ready"
  /\ nUp >= 1
  /\ \E r \in reaped : r[2].src \in {"orig", "release"}
  /\ \A p \in StashPaths : ~Exists(dest, p)

\* C4 as stated: the platform-not-supported error is signalled before any
\* network request has been issued.
C4_NoRequestBeforeConfigError ==
  (NoAssetForPlatform /\ HookGot(Code(3))) => net = <<>>

\* C4 amended: with no asset name for the platform, no asset is ever
\* requested, and the platform-not-supported error is signalled after the
\* release-list request (and, authenticated, the release request) only.
C4_NoAssetRequestBeforeConfigError ==
  NoAssetForPlatform =>
    /\ \A i \in 1..Len(net) : net[i] \notin {"download", "asset"}
    /\ HookGot(Code(3)) =>
         net = IF opts.skipAuth THEN <<"list">> ELSE <<"list", "release">>

\* The error was signalled in direct mode, after the release-list request.
C4_Witness ==
  /\ NoAssetForPlatform
  /\ HookGot(Code(3))
  /\ opts.skipAuth
  /\ net = <<"list">>

\* C5: once the platform-not-supported error was signalled, the error
\* upgrade() rejects with carries its code (base code 3).
C5_ConfigCodeResignalled ==
  (pc = "rejected" /\ NoAssetForPlatform /\ HookGot(Code(3))) =>
    thrown = [kind |-> "GHRError", code |-> Code(3)]

\* C6: when the asset fetch answered 404, the hook and the caller get the
\* code that embeds the status: 5404 in direct mode, 6404 authenticated.
C6_NotFoundCode ==
  (assetStatus = Status404 /\ pc \in {"rejected", "exited"}) =>
    LET code == Code(IF opts.skipAuth THEN 5404 ELSE 6404)
    IN /\ \A i \in 1..Len(hooks) : hooks[i] = code
       /\ pc = "rejected" => thrown = [kind |-> "GHRError", code |-> code]

\* C7: when upgrade() failed before the install loop, the destination
\* directory is what it was when upgrade() was called.
C7_NoChangeBeforeInstall ==
  (pc \in {"rejected", "exited"}
     /\ phase \in {"ResolvingVersion", "Fetching", "Extracting"}) =>
    dest = dest0

\* The asset fetch answered 404, and the extraction failed, over a
\* destination directory that holds files.
C7_Witness ==
  /\ pc = "rejected"
  /\ phase = "Extracting"
  /\ \E p \in InstallPaths : Exists(dest, p)
  /\ \E p \in StashPaths : Exists(dest, p)

\* ========================================================== claims C11-C20

\* upgrade() got the Version Set from getVersions.
VersionSetKnown == options # NoOptions /\ versions # NoResult

\* C11: when the target is "latest" and the Version Set is empty, upgrade()
\* stops at version resolution: no release or download request is issued.
C11_LatestOfEmptySetStops ==
  (VersionSetKnown /\ options.to = LATEST /\ versions.versions = <<>>) =>
    tags = <<>>

\* C12: every release or download request carries the first entry of the
\* Version Set when the target was "latest", and the target itself
\* otherwise, in the Version Set or not.
C12_TargetResolution ==
  VersionSetKnown =>
    \A i \in 1..Len(tags) :
      IF options.to = LATEST
      THEN versions.versions # <<>> => tags[i] = versions.versions[1]
      ELSE tags[i] = options.to

\* A tag that is not in the (non-empty) Version Set was requested and
\* installed.
C12_Witness ==
  /\ VersionSetKnown
  /\ pc = "resolved"
  /\ versions.versions # <<>>
  /\ options.to \notin Members(versions.versions) \cup {LATEST}
  /\ tags = <<options.to>>

\* The asset resolver returned.
AssetNameKnown == vResult # NoResult

\* C13 as stated: for a key absent from the map getAssetName returns "no
\* asset", and for a key present exactly the mapped name.
C13_AssetResolver ==
  AssetNameKnown =>
    IF TargetKey(build) \in DOMAIN opts.targetAssetMap
    THEN vResult.assetName = opts.targetAssetMap[TargetKey(build)]
    ELSE vResult.assetName = NoAssetName

\* C13 amended: for a key absent from the map, or mapped to the empty name,
\* getAssetName returns "no asset"; for a key mapped to a non-empty name,
\* exactly that name.
C13_AssetResolverNonEmpty ==
  AssetNameKnown =>
    LET present == TargetKey(build) \in DOMAIN opts.targetAssetMap
    IN /\ ~present => vResult.assetName = NoAssetName
       /\ (present /\ opts.targetAssetMap[TargetKey(build)] = "") =>
            vResult.assetName = NoAssetName
       /\ (present /\ opts.targetAssetMap[TargetKey(build)] # "") =>
            vResult.assetName = opts.targetAssetMap[TargetKey(build)]

\* The resolver answered "no asset" for a platform absent from a map that
\* has an entry for the same operating system.
C13_Witness ==
  /\ AssetNameKnown
  /\ TargetKey(build) \notin DOMAIN opts.targetAssetMap
  /\ \E k \in DOMAIN opts.targetAssetMap :
       k[1] = build.os /\ opts.targetAssetMap[k] # ""
  /\ vResult.assetName = NoAssetName

\* C14: an engine constructed with cleanup enabled right after a process
\* whose reaper pass completed (no upgrade in between) is ready with the
\* destination directory as that pass left it: its own pass removes nothing
\* and signals no error.
C14_ReaperIdempotent ==
  (reapedBefore.done /\ opts # NoEngine /\ opts.cleanupOld) =>
    /\ pc = "ready"
    /\ dest = dest0
    /\ reaped = {}
    /\ hooks = <<>>
    /\ exited = <<>>

\* The first pass removed stashes; the second engine is ready over a
\* directory that holds files.
C14_Witness ==
  /\ reapedBefore.done
  /\ reapedBefore.removed # {}
  /\ opts # NoEngine
  /\ opts.cleanupOld
  /\ pc = "ready"
  /\ \E p \in InstallPaths : Exists(dest, p)

\* C15: a stash-marked file disappears only in the constructor's reaper
\* pass of an engine with cleanup enabled, before any network request; an
\* installed file leaves its path only by moving to its stashed sibling; and
\* when the constructor has returned, the pass has visited every marked
\* entry of the directory once.
C15_ReaperOnlyInConstructor ==
  [][/\ \A p \in StashPaths :
          (Exists(dest, p) /\ ~Exists(dest', p)) =>
            (pc = "reaping" /\ opts.cleanupOld /\ net = <<>> /\ p \in walk)
     /\ \A p \in InstallPaths :
          (Exists(dest, p) /\ ~Exists(dest', p)) =>
            dest'[p \o <<OLD_VERSION_TAG>>] = dest[p]
     /\ (pc # "ready" /\ pc' = "ready" /\ opts'.cleanupOld) =>
          /\ {r[1] : r \in reaped'} = {p \in StashPaths : Exists(dest0', p)}
          /\ walk' = {}
          /\ net' = <<>>]_vars

\* The constructor returned after its pass removed two stashes.
C15_Witness ==
  /\ pc = "ready"
  /\ opts.cleanupOld
  /\ Cardinality({r \in reaped : r[2] # NoFile}) = 2
  /\ net = <<>>

PhaseSteps ==
  {<<"Idle", "ResolvingVersion">>, <<"ResolvingVersion", "Fetching">>,
   <<"Fetching", "Extracting">>, <<"Extracting", "Installing">>,
   <<"Installing", "Complete">>}

\* C17: the phase of an upgrade changes only to the next phase of the order
\* (or ends with the process), and only while no error was signalled or
\* thrown; extraction starts only on an asset answered with 200; the
\* destination directory changes only in the Installing phase, after an
\* extraction that succeeded; after a failure the phase stays.
C17_PhaseOrder ==
  [][/\ phase' # phase =>
          (<<phase, phase'>> \in PhaseSteps \/ phase' = "Idle")
     /\ (phase' # phase /\ phase' # "Idle") =>
          (hooks = <<>> /\ thrown = NoThrow /\ exited = <<>>)
     /\ phase' = "Extracting" => assetStatus' = Status200
     /\ (pc \in UpgradePcs /\ dest' # dest) =>
          (phase = "Installing" /\ phase' = "Installing" /\ cur' \in staged0)
     /\ pc \in {"rejected", "exited"} => phase' \in {phase, "Idle"}]_vars

\* An upgrade went through every phase and installed two files.
C17_Witness ==
  /\ pc = "resolved"
  /\ phase = "Complete"
  /\ Cardinality(staged0) = 2
  /\ \A entry \in staged0 :
       Bytes(dest[FinalPath(entry)]) = Bytes(ReleaseFile(nUp))

\* C18: when upgrade() has rejected, the error hook was invoked with a
\* GHRError, and that is what upgrade() rejected with.
C18_EveryFailureReachesHook ==
  pc = "rejected" =>
    /\ hooks # <<>>
    /\ thrown.kind = "GHRError"

BandCodes(lead) ==
  {parseInt(errorCodePrefix \o lead \o status) :
     status \in {<<>>, Status404, Status500}}

Categories == {"configuration", "cleanup", "direct", "api", "list",
               "extraction", "install"}

\* The codes of a failure category (stash and install failures are taken
\* together).
CategoryCodes(category) ==
  CASE category = "configuration" -> {Code(1), Code(3), Code(4)}
    [] category = "cleanup" -> {Code(2)}
    [] category = "direct" -> BandCodes(<<"5">>)
    [] category = "api" -> BandCodes(<<"6">>)
    [] category = "list" -> BandCodes(<<"7">>)
    [] category = "extraction" -> {Code(8)}
    [] category = "install" -> {Code(9), Code(10)}

\* The category of the step an engine that failed was at.
FailureCategory ==
  CASE phase = "Idle" -> "cleanup"
    [] phase = "ResolvingVersion" -> "list"
    [] phase = "Fetching" ->
         IF opts.skipAuth
         THEN IF NoAssetForPlatform THEN "configuration" ELSE "direct"
         ELSE IF release = NoRelease THEN "api"
         ELSE IF \A i \in 1..Len(net) : net[i] # "asset" THEN "configuration"
         ELSE "api"
    [] phase = "Extracting" ->
         IF NoAssetForPlatform THEN "configuration" ELSE "extraction"
    [] OTHER -> "install"

\* C21: the codes of two categories are never the same, and every code an
\* engine signals for a failure is a code of the category of the step that
\* failed (6xxx for every fetch failure in authenticated mode).
C21_CodeBands ==
  /\ \A c1, c2 \in Categories :
       c1 # c2 => CategoryCodes(c1) \cap CategoryCodes(c2) = {}
  /\ (opts # NoEngine /\ pc \in {"rejected", "exited", "crashed"}) =>
       \A i \in 1..Len(hooks) : hooks[i] \in CategoryCodes(FailureCategory)

\* --------------------------------------------- the error-code prefix alone

MaxEngines == 2

\* The values of options.errorExitCodePrefix: absent, "", "8", "12".
PrefixOptions == {UNDEFINED, <<>>, <<"8">>, <<"1", "2">>}

\* options.errorExitCodePrefix || ""
PrefixOrEmpty(p) == IF p = UNDEFINED \/ p = <<>> THEN <<>> ELSE p

\* The codes the engine passes to new GHRError.
BaseCodes == {1, 2, 3, 4, 5, 8, 9, 10, 5404, 6404, 7500}

InitPrefix ==
  /\ vData = <<>>
  /\ vPrerelease = FALSE
  /\ vResult = NoResult
  /\ EngineAtBoot(EmptyDir(DestPaths), CHOOSE b \in Builds : TRUE)
  /\ opts = NoEngine

\* new GithubReleasesProvider(options): the prefix is stored on the
\* prototype of GHRError, shared by every engine of the process.
ConstructEngine ==
  /\ Len(prefixes) < MaxEngines
  /\ \E p \in PrefixOptions :
       /\ prefixes' = Append(prefixes, p)
       /\ errorCodePrefix' = PrefixOrEmpty(p)
  /\ UNCHANGED <<vData, vPrerelease, vResult, fvars, pc, build, opts, dest,
                 staging, walk, cur, to, phase, net, hooks, thrown, exited,
                 completed, reaped, assetStatus, dest0, staged0, nUp, hvars,
                 repository, ensured, assetId>>

\* new GHRError(message, {code, metadata}) in a method of engine e.
EmitError ==
  /\ \E e \in 1..Len(prefixes), code \in BaseCodes :
       vResult' = [called |-> TRUE, engine |-> e, base |-> code,
                   code |-> GHRErrorCode(errorCodePrefix, code)]
  /\ UNCHANGED <<vData, vPrerelease, evars>>

NextPrefix == ConstructEngine \/ EmitError

SpecPrefix == InitPrefix /\ [][NextPrefix]_vars

\* The number of decimal digits of n, n >= 0.
RECURSIVE Digits(_)
Digits(n) == IF n < 10 THEN 1 ELSE 1 + Digits(n \div 10)

RECURSIVE Pow10(_)
Pow10(k) == IF k = 0 THEN 1 ELSE 10 * Pow10(k - 1)

\* The decimal concatenation of a prefix of digits and a base code.
DecimalConcat(prefix, code) ==
  IF prefix = <<>> THEN code
  ELSE DigitsValue(prefix) * Pow10(Digits(code)) + code

\* C22: every error an engine emits carries the decimal concatenation of
\* the prefix that engine was configured with and the base code, whatever
\* engines were constructed in the process before the error.
C22_PrefixOfTheEmittingEngine ==
  vResult # NoResult =>
    vResult.code =
      DecimalConcat(PrefixOrEmpty(prefixes[vResult.engine]), vResult.base)

\* C23: with the default error hook every failure of the engine ends the
\* process by exit with the code of the error; with a configured hook the
\* engine calls exit for no failure of upgrade().
C23_DefaultHookExitsWithCode ==
  /\ (opts # NoEngine /\ opts.hook = "default"
        /\ pc \in {"rejected", "exited", "crashed"}) =>
       (pc = "exited" /\ Len(hooks) = 1 /\ exited = hooks)
  /\ (opts # NoEngine /\ opts.hook = "returns" /\ options # NoOptions) =>
       exited = <<>>

Requests == {"list", "release", "asset", "download"}

\* The number of requests of one kind the upgrade has made.
Attempts(request) == Cardinality({i \in 1..Len(net) : net[i] = request})

\* C24: in one upgrade() each remote request is made at most once, the
\* extraction is started once and from the fetch only, one attempt ends it,
\* a step that signals or throws an error ends the run, and after that the
\* engine takes no step.
C24_NoRetry ==
  [][/\ \A request \in Requests : Attempts(request)' <= 1
     /\ pc' = "inflate" => (pc \in {"direct", "asset"} /\ phase = "Fetching")
     /\ pc = "inflate" => pc' # "inflate"
     /\ (pc \in UpgradePcs /\ (hooks' # hooks \/ thrown' # thrown)) =>
          pc' \in {"rejected", "exited"}
     /\ pc \in {"rejected", "exited"} => (pc' = "boot" /\ net' = <<>>)]_vars

\* The extraction failed after the list, the release and the asset were
\* each requested once.
C24_Witness ==
  /\ pc = "rejected"
  /\ hooks = <<Code(8)>>
  /\ net = <<"list", "release", "asset">>
  /\ phase = "Extracting"

\* The previous content of a final path, if there was any, is at its stash
\* path.
PreviousStashed(finalPath) ==
  Exists(dest0, finalPath) => dest[StashPath(finalPath)] = dest0[finalPath]

\* What the destination directory holds when the install rename of the
\* staged file cur has failed.
LeftHalfInstalled ==
  /\ \A entry \in staged0 \ walk :
       /\ Bytes(dest[FinalPath(entry)]) = Bytes(ReleaseFile(nUp))
       /\ PreviousStashed(FinalPath(entry))
  /\ ~Exists(dest, FinalPath(cur))
  /\ PreviousStashed(FinalPath(cur))
  /\ staging[cur] = ReleaseFile(nUp)
  /\ \A entry \in walk \ {cur} :
       /\ dest[FinalPath(entry)] = dest0[FinalPath(entry)]
       /\ dest[StashPath(FinalPath(entry))] =
            dest0[StashPath(FinalPath(entry))]

\* C25: when the install rename of a staged file has failed (error 10), the
\* files installed before it hold the new content with their previous
\* content stashed, the path of the failed file is absent with its previous
\* content at the stash path, the paths of the files after it are as they
\* were; and no step of an upgrade moves a stash back to its final path.
C25_NoRollback ==
  [][/\ (pc' \in {"rejected", "exited"} /\ hooks' = <<Code(10)>>) =>
          LeftHalfInstalled'
     /\ pc \in UpgradePcs =>
          \A finalPath \in InstallPaths :
            ~(/\ Exists(dest, StashPath(finalPath))
              /\ dest'[finalPath] = dest[StashPath(finalPath)]
              /\ dest'[StashPath(finalPath)] # dest[StashPath(finalPath)])]_vars

\* The install of the second of two files failed where both files had a
\* previous version.
C25_Witness ==
  /\ pc = "rejected"
  /\ hooks = <<Code(10)>>
  /\ Cardinality(staged0) = 2
  /\ Cardinality(staged0 \ walk) = 1
  /\ \A entry \in staged0 : Exists(dest0, FinalPath(entry))

C27_HookOnceWithTheErrorThrown ==
  (pc = "rejected" /\ thrown.kind = "GHRError") =>
    (Len(hooks) = 1 /\ thrown.code = hooks[1])

FetchFailureCodes ==
  IF opts.skipAuth
  THEN <<parseInt(errorCodePrefix \o <<"5">> \o assetStatus), Code(5)>>
  ELSE <<parseInt(errorCodePrefix \o <<"6">> \o assetStatus)>>

C30_AssetRequestUsesMatchingId ==
  (opts # NoEngine /\ ~opts.skipAuth) =>
    LET assetName == getAssetName(build, opts.targetAssetMap)
    IN /\ Attempts("asset") = 1 =>
            /\ release.fetched
            /\ tags = <<to>>
            /\ \E i \in 1..Len(release.assets) :
                 /\ release.assets[i].name = assetName
                 /\ assetId = <<release.assets[i].id>>
       /\ Attempts("asset") = 0 => assetId = <<>>
       /\ (release.fetched /\ ~HasAsset(release.assets, assetName)) =>
            Attempts("asset") = 0

\* The asset of the platform is the second asset of the release, and it was
\* installed.
C30_Witness ==
  /\ pc = "resolved"
  /\ opts # NoEngine /\ ~opts.skipAuth
  /\ release.fetched
  /\ release.assets[1].name # getAssetName(build, opts.targetAssetMap)
  /\ assetId = <<release.assets[2].id>>

\* =========================================================== claims C31-C39

\* C31: an engine in skipAuth mode has an API client without a token, makes
\* no release request and no asset request, and fetches at most once, the
\* url built from the owner, the repo, the resolved tag and the asset name
\* of the platform; what it extracts came from that one fetch.  An engine
\* in authenticated mode issues no anonymous fetch.
C31_FetchModesExclusive ==
  opts # NoEngine =>
    IF opts.skipAuth
    THEN /\ auth = UNDEFINED
         /\ Attempts("release") = 0 /\ Attempts("asset") = 0
         /\ Attempts("download") <= 1
         /\ Attempts("download") = 1 <=> url # <<>>
         /\ url # <<>> =>
              url = DownloadUrl(Owner(repository.value),
                                Repo(repository.value), to,
                                getAssetName(build, opts.targetAssetMap))
         /\ phase \in {"Extracting", "Installing", "Complete"} =>
              Attempts("download") = 1
    ELSE /\ Attempts("download") = 0
         /\ url = <<>>

\* A skipAuth upgrade to "latest" installed the release it fetched from the
\* download url of tag 2.0.0.
C31_Witness ==
  /\ pc = "resolved"
  /\ opts.skipAuth
  /\ options.to = LATEST
  /\ net = <<"list", "download">>
  /\ url = <<"https://github.com/", "acme", "/", "tool",
             "/releases/download/">> \o Tag_2_0_0
             \o <<"/", getAssetName(build, opts.targetAssetMap)>>

\* C32: an upgrade starts with no Version Set and no request made; once it
\* is past getVersions it has made exactly one release-list request, and
\* before any other request; the Version Set it uses is the one of that
\* request; a failed release-list request ends the upgrade with a code of
\* the 7 band and no other request, whatever the target.
C32_ListFirstAndFresh ==
  /\ pc = "getVersions" => (versions = NoResult /\ net = <<>>)
  /\ (options # NoOptions /\ pc # "getVersions") =>
       /\ Attempts("list") = 1
       /\ net[1] = "list"
  /\ versions # NoResult => Attempts("list") = 1
  /\ (options # NoOptions /\ versions = NoResult /\ pc # "getVersions") =>
       /\ pc \in {"rejected", "exited"}
       /\ net = <<"list">>
       /\ Len(hooks) = 1
       /\ hooks[1] \in BandCodes(<<"7">>)

\* The release-list request of an upgrade to the concrete tag 1.9.9 failed
\* with 404.
C32_Witness ==
  /\ options # NoOptions
  /\ options.to = Tag_1_9_9
  /\ pc = "rejected"
  /\ hooks = <<Code(7404)>>
  /\ net = <<"list">>

\* C33: the only marked path a step of an upgrade writes is the one stash
\* path of the file it is at, and what it puts there is the file's content
\* at that moment; when an upgrade has resolved, the sibling of every file
\* it replaced holds the content the file had when the upgrade was called,
\* and every other sibling is as it was, whether or not a reaper pass came
\* before the upgrade.
C33_OneFreshSibling ==
  [][/\ pc \in UpgradePcs =>
          \A q \in DestPaths :
            (IncludesOldTag(q) /\ dest'[q] # dest[q]) =>
              /\ q = StashPath(FinalPath(cur'))
              /\ Exists(dest, FinalPath(cur'))
              /\ dest'[q] = dest[FinalPath(cur')]
     /\ pc' = "resolved" =>
          \A p \in InstallPaths :
            IF Exists(dest0', p) /\ \E entry \in staged0' : FinalPath(entry) = p
            THEN dest'[StashPath(p)] = dest0'[p]
            ELSE dest'[StashPath(p)] = dest0'[StashPath(p)]]_vars

\* The second of two upgrades with no reaper pass in between: the sibling of
\* a file holds what the first upgrade installed, not what it stashed.
C33_Witness ==
  /\ pc = "resolved"
  /\ nUp = 2
  /\ ~opts.cleanupOld
  /\ \E p \in InstallPaths :
       /\ Bytes(dest0[StashPath(p)]) = Bytes(OrigFile)
       /\ Bytes(dest[StashPath(p)]) = Bytes(ReleaseFile(1))
       /\ Bytes(dest[p]) = Bytes(ReleaseFile(2))

\* C34: in and after the install loop, every file the loop is done with
\* holds the release's bytes, with mode 0755 when the platform is not
\* Windows and as it was extracted on Windows, where the loop never is at a
\* chmod; the success hook is invoked only when the loop is done with every
\* file.
C34_ExecutableWhenInstalled ==
  (opts # NoEngine /\ phase \in {"Installing", "Complete"}) =>
    /\ \A entry \in staged0 \ walk :
         dest[FinalPath(entry)] =
           IF build.os = "windows" THEN ReleaseFile(nUp)
           ELSE [ReleaseFile(nUp) EXCEPT !.mode = "0755"]
    /\ build.os = "windows" => pc # "chmod"
    /\ completed # <<>> => walk = {}

\* On Linux an upgrade installed two files and invoked the success hook.
C34_Witness ==
  /\ pc = "resolved"
  /\ build.os = "linux"
  /\ completed # <<>>
  /\ Cardinality(staged0) = 2
  /\ \A entry \in staged0 : dest[FinalPath(entry)].mode = "0755"

\* C35: from the call of upgrade() to its end, at every step, the entry each
\* destination file was at the call is at its path or at its stash path.
C35_PreviousVersionKept ==
  options # NoOptions =>
    \A p \in InstallPaths :
      Exists(dest0, p) =>
        (dest[p] = dest0[p] \/ dest[StashPath(p)] = dest0[p])

\* Between the stash rename and the install rename of a file: its path is
\* absent and its previous version is at the stash path, where an older
\* stash was.
C35_Witness ==
  /\ pc = "install"
  /\ Exists(dest0, FinalPath(cur))
  /\ Exists(dest0, StashPath(FinalPath(cur)))
  /\ ~Exists(dest, FinalPath(cur))
  /\ dest[StashPath(FinalPath(cur))] = dest0[FinalPath(cur)]

\* C36: with another engine acting on the directory, the entry a file was
\* at the call of upgrade() can be at neither its path nor its stash path;
\* that only happens after the other engine acted between the stash rename
\* and the install rename.
C36_LossNeedsSecondWriter ==
  (options # NoOptions /\
     \E p \in InstallPaths :
       /\ Exists(dest0, p)
       /\ dest[p] # dest0[p]
       /\ dest[StashPath(p)] # dest0[p]) => interfered

\* The previous version of a file this upgrade replaced is gone: the other
\* engine's reaper removed the stash before the install rename.
C36_Witness ==
  /\ pc = "resolved"
  /\ interfered
  /\ \E p \in InstallPaths :
       /\ Exists(dest0, p)
       /\ Bytes(dest[p]) = Bytes(ReleaseFile(nUp))
       /\ ~Exists(dest, StashPath(p))

\* C37: the success hook is invoked only when no error was handed to the
\* error hook, none was thrown and every step is done; an upgrade that
\* resolved has invoked the success hook and not the error hook; an upgrade
\* that invoked the error hook has not invoked the success hook.
C37_OneHookPerUpgrade ==
  /\ completed # <<>> =>
       /\ hooks = <<>> /\ thrown = NoThrow /\ exited = <<>>
       /\ walk = {}
       /\ pc = "resolved"
  /\ pc = "resolved" => (Len(completed) = 1 /\ hooks = <<>>)
  /\ (options # NoOptions /\ hooks # <<>>) =>
       (completed = <<>> /\ pc \in {"rejected", "exited"})

\* An engine with both hooks configured resolved: the success hook was
\* invoked, the error hook was not.
C37_Witness ==
  /\ pc = "resolved"
  /\ opts.hook = "returns"
  /\ opts.onComplete = "callsBack"
  /\ Len(completed) = 1
  /\ hooks = <<>>

\* C38: from the construction of an engine to its first upgrade, every
\* entry whose path does not include the marker is as it was when the
\* process started; the paths the reaper removed all include the marker;
\* and when a reaper pass has ended with no failure no entry whose path
\* includes the marker is left.
C38_ReaperTakesMarkedOnly ==
  (opts # NoEngine /\ options = NoOptions) =>
    /\ \A p \in DestPaths : ~IncludesOldTag(p) => dest[p] = dest0[p]
    /\ \A r \in reaped : IncludesOldTag(r[1])
    /\ (opts.cleanupOld /\ pc = "ready") =>
         \A p \in DestPaths : IncludesOldTag(p) => ~Exists(dest, p)

\* A reaper pass removed the stashes of two installed files, which are
\* still there.
C38_Witness ==
  /\ opts # NoEngine /\ opts.cleanupOld
  /\ pc = "ready"
  /\ options = NoOptions
  /\ Cardinality({r \in reaped : r[2] # NoFile}) = 2
  /\ \A p \in InstallPaths : Exists(dest, p)

\* The destination directory held nothing, no file and no subdirectory,
\* when the install loop started.
FirstInstall ==
  /\ dirs = {}
  /\ \A p \in DOMAIN dest0 : ~Exists(dest0, p)

\* C39: first-ever install.  On an empty destination directory the install
\* rename of every staged regular file, the ones in subdirectories of the
\* staging tree among them, can succeed; and when upgrade() has resolved,
\* every staged path exists under the destination directory with the staged
\* content and no stashed sibling was created.
C39_FirstInstallOfEveryStagedFile ==
  FirstInstall =>
    /\ pc = "install" => ENABLED InstallNew
    /\ pc = "resolved" =>
         /\ \A p \in staged0 :
              Bytes(dest[FinalPath(p)]) = Bytes(ReleaseFile(nUp))
         /\ \A p \in DOMAIN dest : IncludesOldTag(p) => ~Exists(dest, p)

====
